---- MODULE Spec2Model ----
(***************************************************************************)
(* Verification model of the S3 integrator of object-storage-integrators:  *)
(* the secret resolver (utils/secrets.py), the connection-info context     *)
(* (core/context.py) and the bucket reconciliation pass                    *)
(* (events/provider.py, events/general.py, managers/s3.py).                *)
(*                                                                         *)
(* Strings are TLA+ strings; "" is the empty string / an absent value.     *)
(* A Python dict is a function whose DOMAIN is its key set.                *)
(***************************************************************************)
EXTENDS Integers, Sequences, FiniteSets, TLC

(***************************************************************************)
(* Bounds of the model.                                                    *)
(***************************************************************************)
MaxRelations == 2
MaxCalls == 2

(***************************************************************************)
(* Generic helpers.                                                        *)
(***************************************************************************)
Range(s) == {s[i] : i \in DOMAIN s}

\* dict.get(key, "")
Get(d, k) == IF k \in DOMAIN d THEN d[k] ELSE ""

\* Python's `a | b` on dicts: the keys of b override those of a.
DictUnion(a, b) == b @@ a

\* The value Python's None is modelled by.
None == [none |-> TRUE]

(***************************************************************************)
(* Bucket naming grammar (core/domain.py).  re.match works on characters,  *)
(* so every bucket name of the model is listed with its characters.        *)
(***************************************************************************)
CharsOf ==
    [ n \in {"", "bk1", "bk2", "b.k"} |->
        CASE n = ""    -> << >>
          [] n = "bk1" -> <<"b", "k", "1">>
          [] n = "bk2" -> <<"b", "k", "2">>
          [] n = "b.k" -> <<"b", ".", "k">> ]

LowerAlnum ==
    {"a", "b", "c", "d", "e", "f", "g", "h", "i", "j", "k", "l", "m",
     "n", "o", "p", "q", "r", "s", "t", "u", "v", "w", "x", "y", "z",
     "0", "1", "2", "3", "4", "5", "6", "7", "8", "9"}

StartsWith(s, p) == Len(s) >= Len(p) /\ SubSeq(s, 1, Len(p)) = p

EndsWith(s, p) == Len(s) >= Len(p) /\ SubSeq(s, Len(s) - Len(p) + 1, Len(s)) = p

\* `$` also matches just before one trailing newline.
BeforeTrailingNewline(s) ==
    IF Len(s) > 0 /\ s[Len(s)] = "\n" THEN SubSeq(s, 1, Len(s) - 1) ELSE s

\* re.match(BUCKET_REGEX, chars) for
\* (?!(^xn--|.+-s3alias$))^[a-z0-9][a-z0-9-]{1,61}[a-z0-9]$|^$
BUCKET_REGEX(chars) ==
    LET core == BeforeTrailingNewline(chars)
        n == Len(core)
    IN  \/ core = << >>
        \/ /\ ~ StartsWith(chars, <<"x", "n", "-", "-">>)
           /\ ~ (/\ EndsWith(core, <<"-", "s", "3", "a", "l", "i", "a", "s">>)
                 /\ n > 8
                 /\ \A i \in 1..(n - 8) : core[i] # "\n")
           /\ n >= 3
           /\ n - 2 <= 61
           /\ core[1] \in LowerAlnum
           /\ core[n] \in LowerAlnum
           /\ \A i \in 2..(n - 1) : core[i] \in LowerAlnum \cup {"-"}

(***************************************************************************)
(* Secret resolver (utils/secrets.py).                                     *)
(*                                                                         *)
(* What model.get_secret(id).get_content(refresh=True) does is the store's *)
(* outcome: either a content map (ak, sk: "" when the field is absent or   *)
(* empty) or a raised exception (its class and whether its message         *)
(* contains "permission denied").                                          *)
(***************************************************************************)
Content(ak, sk) == [kind |-> "content", ak |-> ak, sk |-> sk]

Raise(type, denied) == [kind |-> "raise", type |-> type, denied |-> denied]

ExceptionTypes == {"SecretNotFoundError", "ValueError", "ModelError", "Exception"}

StoreOutcomes ==
    {Content(ak, sk) : ak \in {"", "AK1", "AK2"}, sk \in {"", "SK1", "SK2"}}
    \cup {Raise(t, d) : t \in ExceptionTypes, d \in BOOLEAN}

Ok(ak, sk) == [kind |-> "ok", ak |-> ak, sk |-> sk]

Err(error, fields) == [kind |-> "error", error |-> error, fields |-> fields]

SecretErrors == {"DoesNotExist", "FieldMissing", "NotGranted", "DecodeError"}

\* A plausible slip: "elif" for the second field, so that one field at most
\* is reported.
missing_fields_first_only(o) ==
    IF o.ak = "" THEN <<"access-key">>
    ELSE IF o.sk = "" THEN <<"secret-key">> ELSE << >>

\* lines 77-82: the required fields that are absent or empty, in this order
missing_fields(o) ==
    (IF o.ak = "" THEN <<"access-key">> ELSE << >>)
    \o (IF o.sk = "" THEN <<"secret-key">> ELSE << >>)

\* A plausible slip: the message of a ModelError is not inspected.
decode_secret_key_no_permission_check(o) ==
    IF o.kind = "content"
    THEN IF missing_fields(o) # << >>
         THEN Err("FieldMissing", missing_fields(o))
         ELSE Ok(o.ak, o.sk)
    ELSE IF o.type \in {"SecretNotFoundError", "ValueError"}
         THEN Err("DoesNotExist", << >>)
         ELSE Err("DecodeError", << >>)

\* decode_secret_key: the result for one outcome of the store
decode_secret_key(o) ==
    IF o.kind = "content"
    THEN IF missing_fields(o) # << >>
         THEN Err("FieldMissing", missing_fields(o))
         ELSE Ok(o.ak, o.sk)
    ELSE IF o.type \in {"SecretNotFoundError", "ValueError"}
         THEN Err("DoesNotExist", << >>)
         ELSE IF o.type = "ModelError"
              THEN IF o.denied THEN Err("NotGranted", << >>)
                               ELSE Err("DecodeError", << >>)
              ELSE Err("DecodeError", << >>)

\* @retry(stop=stop_after_attempt(3), wait=wait_fixed(5),
\*        retry=retry_if_exception_type(SecretNotGrantedError), reraise=True)
StopAfterAttempt == 3
WaitFixed == 5

\* A plausible slip: every failure is retried.
retry_if_any_exception(result) == result.kind = "error"

retry_if_exception_type(result) ==
    result.kind = "error" /\ result.error = "NotGranted"

\* A plausible slip: the stop condition admits one attempt too many.
stop_after_attempt_off_by_one(attempt_number) == attempt_number > StopAfterAttempt

stop_after_attempt(attempt_number) == attempt_number >= StopAfterAttempt

(***************************************************************************)
(* Configuration and connection info (core/domain.py, core/context.py).    *)
(***************************************************************************)
\* The credentials values of the model that match SECRET_REGEX.
ValidSecretRefs == {"secret:cred"}

Config(bucket, path, credentials) ==
    [bucket |-> bucket, path |-> path, credentials |-> credentials]

Configs ==
    {Config("", "", ""), Config("", "", "secret:cred"), Config("", "cp", "secret:cred"),
     Config("bk1", "", "secret:cred"), Config("bk1", "cp", "secret:cred")}

\* CharmConfig(**charm_config) raises no ValidationError
CharmConfigValid(cfg) ==
    /\ BUCKET_REGEX(CharsOf[cfg.bucket])
    /\ cfg.credentials \in ValidSecretRefs

\* A plausible slip: exclude_none is left out, the unset options stay in.
model_dump_keep_none(cfg) ==
    [k \in {"bucket", "path"} |-> cfg[k]]

\* validated_config.model_dump(mode="json", exclude_none=True, by_alias=True):
\* empty strings were nullified, credentials is excluded
model_dump(cfg) ==
    [k \in {k \in {"bucket", "path"} : cfg[k] # ""} |-> cfg[k]]

\* A plausible slip: a failure of the secret is swallowed and the
\* connection info goes out without the keys.
ContextS3_partial(cfg, o) ==
    IF ~ CharmConfigValid(cfg)
    THEN None
    ELSE LET decoded == decode_secret_key(o)
         IN  IF decoded.kind = "error"
             THEN model_dump(cfg)
             ELSE ("access-key" :> decoded.ak) @@ ("secret-key" :> decoded.sk)
                  @@ model_dump(cfg)

\* Context.s3 for one outcome of the secret store: None, or the
\* connection info with the plaintext keys.
ContextS3(cfg, o) ==
    IF ~ CharmConfigValid(cfg)
    THEN None
    ELSE LET decoded == decode_secret_key(o)
         IN  IF decoded.kind = "error"
             THEN None
             ELSE ("access-key" :> decoded.ak) @@ ("secret-key" :> decoded.sk)
                  @@ model_dump(cfg)

(***************************************************************************)
(* Object store (managers/s3.py).  Per bucket name the store is            *)
(*   "present": the bucket exists and can be listed,                       *)
(*   "absent" : it does not exist and a create call will succeed,          *)
(*   "hidden" : it does not exist, a create call will succeed, but the     *)
(*              created bucket cannot be listed,                           *)
(*   "denied" : listing fails and a create call fails.                     *)
(***************************************************************************)
StoreNames == {"bk1", "bk2", "b.k"}

StoreStates == {"present", "absent", "hidden", "denied"}

\* The stores the passes are run against.
Stores ==
    {st \in [StoreNames -> StoreStates] :
        \/ /\ st["bk1"] \in {"absent", "hidden", "denied"}
           /\ st["bk2"] = "absent"
           /\ st["b.k"] \in {"present", "denied"}
        \/ \A n \in StoreNames : st[n] = "denied"}

\* S3Manager.get_bucket: a bucket object, or None when listing fails
get_bucket(st, name) == st[name] = "present"

\* S3Manager.create_bucket: raises S3BucketError, or creates the bucket
create_bucket(st, name) ==
    IF st[name] \in {"absent", "hidden"}
    THEN [raised |-> FALSE,
          store |-> [st EXCEPT ![name] = IF @ = "absent" THEN "present" ELSE "denied"]]
    ELSE [raised |-> TRUE, store |-> st]

\* A plausible slip: the created bucket is not verified.
ensure_bucket_unverified(st, name) ==
    IF get_bucket(st, name)
    THEN [ok |-> TRUE, store |-> st, calls |-> << <<"get", name>> >>]
    ELSE LET c == create_bucket(st, name)
         IN  [ok |-> TRUE, store |-> c.store,
              calls |-> << <<"get", name>>, <<"create", name>> >>]

\* A plausible slip: a bucket that is not found is not created.
ensure_bucket_no_create(st, name) ==
    [ok |-> get_bucket(st, name), store |-> st, calls |-> << <<"get", name>> >>]

\* A plausible slip: the bucket is created without looking for it first.
ensure_bucket_create_first(st, name) ==
    LET c == create_bucket(st, name)
    IN  IF c.raised
        THEN [ok |-> FALSE, store |-> st, calls |-> << <<"create", name>> >>]
        ELSE [ok |-> get_bucket(c.store, name), store |-> c.store,
              calls |-> << <<"create", name>>, <<"get", name>> >>]

\* S3ProviderEvents.ensure_bucket
ensure_bucket(st, name) ==
    IF get_bucket(st, name)
    THEN [ok |-> TRUE, store |-> st, calls |-> << <<"get", name>> >>]
    ELSE LET c == create_bucket(st, name)
         IN  IF c.raised
             THEN [ok |-> FALSE, store |-> st,
                   calls |-> << <<"get", name>>, <<"create", name>> >>]
             ELSE [ok |-> get_bucket(c.store, name), store |-> c.store,
                   calls |-> << <<"get", name>>, <<"create", name>>,
                                <<"get", name>> >>]

(***************************************************************************)
(* Statuses (events/statuses.py).  The message of a bucket status lists    *)
(* the names in the order of `names`.                                      *)
(***************************************************************************)
ACTIVE_IDLE == [status |-> "active", kind |-> "active_idle", names |-> << >>]

bucket_unavailable(bucket_names) ==
    [status |-> "blocked", kind |-> "bucket_unavailable", names |-> bucket_names]

bucket_name_invalid(bucket_names) ==
    [status |-> "blocked", kind |-> "bucket_name_invalid", names |-> bucket_names]

\* ConfigStatuses: the statuses about the secret.  The message of
\* field_missing_in_secret lists the fields in the order of `names`.
secret_does_not_exist ==
    [status |-> "blocked", kind |-> "secret_does_not_exist", names |-> << >>]

field_missing_in_secret(fields) ==
    [status |-> "blocked", kind |-> "field_missing_in_secret", names |-> fields]

secret_not_granted ==
    [status |-> "blocked", kind |-> "secret_not_granted", names |-> << >>]

secret_cannot_be_decoded ==
    [status |-> "blocked", kind |-> "secret_cannot_be_decoded", names |-> << >>]

\* GeneralEvents.get_statuses, for a valid configuration that names a
\* secret: result is what decode_secret_key_with_retry ended with.
GeneralEvents_get_statuses(result) ==
    IF result.kind = "ok"
    THEN <<ACTIVE_IDLE>>
    ELSE CASE result.error = "FieldMissing" -> <<field_missing_in_secret(result.fields)>>
           [] result.error = "DoesNotExist" -> <<secret_does_not_exist>>
           [] result.error = "NotGranted" -> <<secret_not_granted>>
           [] result.error = "DecodeError" -> <<secret_cannot_be_decoded>>

\* A plausible slip: the active status is added whatever the lists hold.
handle_status_always_active(missing_buckets, invalid_buckets) ==
    (IF missing_buckets # << >> THEN <<bucket_unavailable(missing_buckets)>> ELSE << >>)
    \o (IF invalid_buckets # << >> THEN <<bucket_name_invalid(invalid_buckets)>> ELSE << >>)
    \o <<ACTIVE_IDLE>>

\* S3ProviderEvents._handle_status: the statuses it adds
handle_status(missing_buckets, invalid_buckets) ==
    (IF missing_buckets # << >> THEN <<bucket_unavailable(missing_buckets)>> ELSE << >>)
    \o (IF invalid_buckets # << >> THEN <<bucket_name_invalid(invalid_buckets)>> ELSE << >>)
    \o (IF missing_buckets = << >> /\ invalid_buckets = << >>
        THEN <<ACTIVE_IDLE>> ELSE << >>)

(***************************************************************************)
(* Relation data.  requests: relation id -> what the consumer wrote;       *)
(* databag: relation id -> what the provider published to it.              *)
(***************************************************************************)
Relations == 1..MaxRelations

Request(bucket, path) == [bucket |-> bucket, path |-> path]

Requests ==
    {Request("", ""), Request("bk1", "rp"), Request("bk2", ""), Request("b.k", "")}

EmptyDict == [k \in {} |-> ""]

RECURSIVE SortedSeq(_)
SortedSeq(S) ==
    IF S = {} THEN << >>
    ELSE LET m == CHOOSE x \in S : \A y \in S : x <= y
         IN  <<m>> \o SortedSeq(S \ {m})

\* get_requested_relation_buckets iterates the relations in id order
RelationOrder(reqs) == SortedSeq(DOMAIN reqs)

\* A plausible slip: empty values are written as they are.
NonEmptyFields_keep_all(data) == data

\* ProviderData.update_relation_data as the specification states it: the
\* consumer's payload is replaced as a whole, and only fields with
\* non-empty values are written.
NonEmptyFields(data) == [k \in {k \in DOMAIN data : data[k] # ""} |-> data[k]]

\* An incremental patch instead of a replacement.
update_relation_data_merge(bag, relation_id, data) ==
    [bag EXCEPT ![relation_id] = NonEmptyFields(data @@ @)]

update_relation_data(bag, relation_id, data) ==
    [bag EXCEPT ![relation_id] = NonEmptyFields(data)]

(***************************************************************************)
(* The reconciliation pass (events/provider.py, reconcile_buckets).        *)
(*                                                                         *)
(* self.state.s3 is a property: every use reads the secret store again.    *)
(* A pass over n relations uses it 4 + n times (lines 110, 114, 116, 117   *)
(* and line 137 once per relation); s3At[i] is the value of the i-th use.  *)
(***************************************************************************)
NumReads(reqs) == 4 + Cardinality(DOMAIN reqs)

\* A plausible slip: the consumer's path is preferred to the configured one.
ResolvedPath_relation_first(config_path_value, relation_path_value) ==
    IF relation_path_value # "" THEN relation_path_value ELSE config_path_value

\* A plausible slip: the consumer's path is never fallen back to.
ResolvedPath_config_only(config_path_value, relation_path_value) ==
    config_path_value

\* line 136
ResolvedPath(config_path_value, relation_path_value) ==
    IF config_path_value # "" THEN config_path_value ELSE relation_path_value

\* A plausible slip: the consumer's request overrides the configured bucket.
UseRelationBucket_relation_wins(config_bucket_value, relation_bucket_value) ==
    relation_bucket_value # ""

\* line 139
UseRelationBucket(config_bucket_value, relation_bucket_value) ==
    config_bucket_value = "" /\ relation_bucket_value # ""

\* line 141
InvalidWithheld(relation_bucket_valid, relation_bucket_value, invalid_buckets) ==
    ~ relation_bucket_valid /\ relation_bucket_value \notin Range(invalid_buckets)

\* A plausible slip: the availability of the bucket is not consulted.
MissingWithheld_ignores_available(relation_bucket_available, relation_bucket_value, missing_buckets) ==
    relation_bucket_value \notin Range(missing_buckets)

\* line 147
MissingWithheld(relation_bucket_available, relation_bucket_value, missing_buckets) ==
    ~ relation_bucket_available /\ relation_bucket_value \notin Range(missing_buckets)

\* A plausible slip: the pass goes on after the configured bucket failed.
ConfigBucketBlocks_never(config_bucket_value, config_bucket_available) == FALSE

\* A plausible slip: the leadership of the unit is not checked.
ReturnsAtOnce_no_leader_check(is_leader, s3) == s3 = None

\* line 110
ReturnsAtOnce(is_leader, s3) == ~ is_leader \/ s3 = None

\* lines 126-128
ConfigBucketBlocks(config_bucket_value, config_bucket_available) ==
    config_bucket_value # "" /\ ~ config_bucket_available

\* The body of the loop of lines 131-152 for the i-th relation.
relation_step(ctx, acc, relation_id, i) ==
    LET request == ctx.requests[relation_id]
        relation_bucket_value == request.bucket
        relation_path_value == request.path
        resolved_path == ResolvedPath(ctx.config_path_value, relation_path_value)
        s3 == ctx.s3At[4 + i]
    IN  IF s3 = None
        THEN [acc EXCEPT !.crashed = TRUE]
        ELSE LET relation_data == DictUnion(s3, "path" :> resolved_path)
             IN  IF UseRelationBucket(ctx.config_bucket_value, relation_bucket_value)
                 THEN IF InvalidWithheld(BUCKET_REGEX(CharsOf[relation_bucket_value]),
                                         relation_bucket_value, acc.invalid_buckets)
                      THEN [acc EXCEPT !.invalid_buckets = Append(@, relation_bucket_value)]
                      ELSE IF ctx.s3At[2] = None
                           THEN [acc EXCEPT !.crashed = TRUE]
                           ELSE LET e == ensure_bucket(acc.store, relation_bucket_value)
                                    acc1 == [acc EXCEPT !.store = e.store,
                                                        !.calls = @ \o e.calls]
                                IN  IF MissingWithheld(e.ok, relation_bucket_value,
                                                       acc.missing_buckets)
                                    THEN [acc1 EXCEPT !.missing_buckets =
                                                        Append(@, relation_bucket_value)]
                                    ELSE LET data == DictUnion(relation_data,
                                                       "bucket" :> relation_bucket_value)
                                         IN  [acc1 EXCEPT
                                                !.databag = update_relation_data(
                                                              @, relation_id, data),
                                                !.writes = (relation_id :> data) @@ @]
                 ELSE [acc EXCEPT
                         !.databag = update_relation_data(@, relation_id, relation_data),
                         !.writes = (relation_id :> relation_data) @@ @]

RECURSIVE relation_loop(_, _, _, _)
relation_loop(ctx, acc, order, i) ==
    IF i > Len(order) \/ acc.crashed
    THEN acc
    ELSE CHOOSE out \in {relation_loop(ctx, next, order, i + 1) :
                          next \in {relation_step(ctx, acc, order[i], i)}} : TRUE

\* The outcome of a pass that did nothing (line 111).
Skipped(st, bag, sts) ==
    [mode |-> "skipped", store |-> st, databag |-> bag, statuses |-> sts,
     writes |-> EmptyDict, calls |-> << >>]

\* reconcile_buckets.  reads: the outcome of the secret store at each use of
\* self.state.s3.
reconcile_buckets(is_leader, cfg, reads, st, reqs, bag, sts) ==
    LET s3At == [i \in DOMAIN reads |-> ContextS3(cfg, reads[i])]
    IN  IF ReturnsAtOnce(is_leader, s3At[1])
        THEN Skipped(st, bag, sts)
        ELSE \* _clear_status() has run from here on
        IF s3At[3] = None \/ s3At[4] = None
        THEN [mode |-> "crashed", store |-> st, databag |-> bag, statuses |-> << >>,
              writes |-> EmptyDict, calls |-> << >>]
        ELSE
        LET config_bucket_value == Get(s3At[3], "bucket")
            config_path_value == Get(s3At[4], "path")
            ctx == [config_bucket_value |-> config_bucket_value,
                    config_path_value |-> config_path_value,
                    s3At |-> s3At, requests |-> reqs]
            e == IF config_bucket_value # ""
                 THEN ensure_bucket(st, config_bucket_value)
                 ELSE [ok |-> FALSE, store |-> st, calls |-> << >>]
        IN  IF config_bucket_value # "" /\ s3At[2] = None
            THEN [mode |-> "crashed", store |-> st, databag |-> bag,
                  statuses |-> << >>, writes |-> EmptyDict, calls |-> << >>]
            ELSE IF ConfigBucketBlocks(config_bucket_value, e.ok)
            THEN [mode |-> "completed", store |-> e.store, databag |-> bag,
                  statuses |-> handle_status(<<config_bucket_value>>, << >>),
                  writes |-> EmptyDict, calls |-> e.calls]
            ELSE
            LET acc0 == [store |-> e.store, databag |-> bag, writes |-> EmptyDict,
                         calls |-> e.calls, missing_buckets |-> << >>,
                         invalid_buckets |-> << >>, crashed |-> FALSE]
            IN  \* the loop runs once, on values computed once
                CHOOSE out \in
                  {[mode |-> IF acc.crashed THEN "crashed" ELSE "completed",
                    store |-> acc.store, databag |-> acc.databag,
                    statuses |-> IF acc.crashed THEN << >>
                                 ELSE handle_status(acc.missing_buckets,
                                                    acc.invalid_buckets),
                    writes |-> acc.writes, calls |-> acc.calls] :
                   acc \in {relation_loop(c, a0, o, 1) :
                              c \in {ctx}, a0 \in {acc0},
                              o \in {RelationOrder(reqs)}}} : TRUE

(***************************************************************************)
(* State.                                                                  *)
(***************************************************************************)
VARIABLES
    leader,     \* whether the unit is the leader (charm.unit.is_leader())
    config,     \* the charm configuration
    secret,     \* what the secret store answers for the configured secret
    store,      \* the object store: bucket name -> StoreStates
    requests,   \* relation id -> the consumer's request
    databag,    \* relation id -> the payload published to the consumer
    statuses,   \* the statuses recorded for the component "s3-provider"
    last,       \* what the last handler did: whether the unit was the leader,
                \* how reconcile_buckets ended ("none": no handler has run,
                \* "skipped": it did not run or returned at once,
                \* "crashed": it raised), the payloads it handed to
                \* update_relation_data and its calls of the object store
    rPhase,     \* decode_secret_key_with_retry: "idle", "running" or "done"
    rAttempts,  \* ... the number of invocations of decode_secret_key
    rWaited,    \* ... the seconds waited between the attempts
    rOutcomes,  \* ... the outcome of the secret store at each attempt
    rHistory,   \* ... the result of decode_secret_key at each attempt
    rResult,    \* ... the result surfaced to the caller
    rCalls,     \* the number of calls of decode_secret_key_with_retry
    rStatuses,  \* the statuses GeneralEvents.get_statuses returns after the call
    action,     \* get-s3-connection-info: how the action ended and its results
    validation, \* CharmConfig(**charm.config): the options and the statuses
    naming,     \* a bucket name and the results of matching it
    gcs,        \* the GCS provider: configuration, request, payload
    proxy,      \* S3Manager.skip_proxy: endpoint, no_proxy and the result
    handling,   \* a handler that met a premature data access, and how it ended
    requirer,   \* the requirer libraries: provider data, the event handled, emissions
    azure       \* the Azure integrator: configuration, secret, payloads, status

engineVars == <<leader, config, secret, store, requests, databag, statuses, last>>

retryVars == <<rPhase, rAttempts, rWaited, rOutcomes, rHistory, rResult, rCalls,
               rStatuses>>

sideVars == <<action, validation, naming, gcs, proxy, handling, requirer, azure>>

vars == <<leader, config, secret, store, requests, databag, statuses, last,
          rPhase, rAttempts, rWaited, rOutcomes, rHistory, rResult, rCalls,
          rStatuses, action, validation, naming, gcs, proxy, handling, requirer, azure>>

\* The outcomes of the secret store the passes are run against.
EngineSecrets ==
    {Content("AK1", "SK1"), Content("AK2", "SK2"), Raise("ModelError", TRUE)}

\* How the secret changes while a pass runs: it is rotated, or its grant
\* is revoked.
SecretChanges ==
    {<<Content("AK1", "SK1"), Content("AK2", "SK2")>>,
     <<Content("AK1", "SK1"), Raise("ModelError", TRUE)>>,
     <<Content("AK2", "SK2"), Raise("ModelError", TRUE)>>}

SecretIds == {"secret:cred", "secret:other"}

NoPass == [leader |-> FALSE, mode |-> "none", writes |-> EmptyDict, calls |-> << >>]

\* What an earlier pass, run under the configuration Config("", "cp", ...)
\* and the secret Content("AK2", "SK2"), left with a consumer that then
\* requested "bk2", and in the recorded statuses when another consumer's
\* "bk1" could not be ensured.
EarlierPayload ==
    NonEmptyFields(
        DictUnion(DictUnion(ContextS3(Config("", "cp", "secret:cred"),
                                      Content("AK2", "SK2")),
                            "path" :> ResolvedPath("cp", "")),
                  "bucket" :> "bk2"))

EarlierStatuses == handle_status(<<"bk1">>, << >>)

\* The unit has just been dispatched, as the leader or not: any
\* configuration, a granted secret, any store and set of related consumers;
\* either nothing was published yet, or an earlier pass has left its
\* payloads and statuses.
EngineInit ==
    /\ leader \in BOOLEAN
    /\ config \in Configs
    /\ secret = Content("AK1", "SK1")
    /\ store \in Stores
    /\ \E rels \in SUBSET Relations, earlier \in BOOLEAN :
          /\ requests \in [rels -> Requests]
          /\ databag = [r \in rels |-> IF earlier THEN EarlierPayload ELSE EmptyDict]
          /\ statuses = IF earlier THEN EarlierStatuses ELSE << >>
    /\ last = NoPass

RetryInit ==
    /\ rPhase = "idle"
    /\ rAttempts = 0
    /\ rWaited = 0
    /\ rOutcomes = << >>
    /\ rHistory = << >>
    /\ rResult = None
    /\ rCalls = 0
    /\ rStatuses = << >>

\* Nothing else of the charm has run.
SideIdle ==
    /\ action = None
    /\ validation = None
    /\ naming = None
    /\ gcs = None
    /\ proxy = None /\ handling = None /\ requirer = None /\ azure = None

\* The engine at rest, for the specifications of the other parts.
EngineIdle ==
    /\ leader = FALSE
    /\ config = Config("", "", "")
    /\ secret = Raise("ModelError", TRUE)
    /\ store = [n \in StoreNames |-> "absent"]
    /\ requests = EmptyDict
    /\ databag = EmptyDict
    /\ statuses = << >>
    /\ last = NoPass

(***************************************************************************)
(* Handlers of the provider (events/general.py, events/provider.py,        *)
(* s3_lib.py).                                                             *)
(***************************************************************************)
\* A handler runs reconcile_buckets over the relations reqs.
\* While the pass runs, the secret store may change once: the uses of
\* self.state.s3 from the flipAt-th on see flipTo (flipAt = n + 1: the
\* store does not change).
RunPass(reqs, bag, flipAt, flipTo) ==
    LET n == NumReads(reqs)
        reads == [i \in 1..n |-> IF i < flipAt THEN secret ELSE flipTo]
        out == reconcile_buckets(leader, config, reads, store, reqs, bag, statuses)
    IN  /\ flipAt \in 1..(n + 1)
        /\ (flipAt = n + 1) <=> (flipTo = secret)
        /\ flipTo # secret => leader /\ <<secret, flipTo>> \in SecretChanges
        /\ \E o \in {out} :
              /\ secret' = flipTo
              /\ store' = o.store
              /\ databag' = o.databag
              /\ statuses' = o.statuses
              /\ requests' = reqs
              /\ last' = [leader |-> leader, mode |-> o.mode,
                          writes |-> o.writes, calls |-> o.calls]
        /\ UNCHANGED <<leader, config>>
        /\ UNCHANGED <<retryVars, sideVars>>

\* A pass during which the secret store does not change.
RunStablePass(reqs, bag) ==
    RunPass(reqs, bag, NumReads(reqs) + 1, secret)

\* A handler returns without a pass.
NoRun ==
    /\ last' = [leader |-> leader, mode |-> "skipped", writes |-> EmptyDict,
                calls |-> << >>]
    /\ UNCHANGED <<leader, config>>
    /\ UNCHANGED <<retryVars, sideVars>>

\* GeneralEvents._on_start
OnStart ==
    /\ NoRun
    /\ UNCHANGED <<secret, store, requests, databag, statuses>>

\* GeneralEvents._on_update_status
OnUpdateStatus(flipAt, flipTo) ==
    /\ RunPass(requests, databag, flipAt, flipTo)

\* GeneralEvents._on_config_changed
OnConfigChanged ==
    IF ~ leader
    THEN /\ NoRun
         /\ UNCHANGED <<secret, store, requests, databag, statuses>>
    ELSE RunStablePass(requests, databag)

\* A plausible slip: the changed secret is not compared with the configured one.
OnSecretChanged_any_secret(secret_id) ==
    IF ~ leader
    THEN /\ NoRun
         /\ UNCHANGED <<secret, store, requests, databag, statuses>>
    ELSE RunStablePass(requests, databag)

\* GeneralEvents._on_secret_changed for the secret secret_id
OnSecretChanged(secret_id) ==
    IF ~ leader \/ config.credentials = "" \/ config.credentials # secret_id
    THEN /\ NoRun
         /\ UNCHANGED <<secret, store, requests, databag, statuses>>
    ELSE RunStablePass(requests, databag)

\* S3ProviderEventHandlers._on_relation_changed_event for relation r and,
\* when it emits, S3ProviderEvents._on_s3_connection_info_requested.
\* bucket_added: "bucket" is among the keys the consumer added since the
\* relation data was last seen.
OnRelationChanged(r, bucket_added) ==
    /\ r \in DOMAIN requests
    /\ bucket_added => requests[r].bucket # ""
    /\ IF leader /\ bucket_added
       THEN RunStablePass(requests, databag)
       ELSE /\ NoRun
            /\ UNCHANGED <<secret, store, requests, databag, statuses>>

\* S3ProviderEvents._on_s3_relation_broken: the relation r is gone
OnRelationBroken(r) ==
    LET reqs == [x \in DOMAIN requests \ {r} |-> requests[x]]
        bag == [x \in DOMAIN databag \ {r} |-> databag[x]]
    IN  /\ r \in DOMAIN requests
        /\ IF leader
           THEN RunStablePass(reqs, bag)
           ELSE /\ NoRun
                /\ requests' = reqs
                /\ databag' = bag
                /\ UNCHANGED <<secret, store, statuses>>

\* The unit is elected leader.  No handler of the charm observes it.
LeaderElected ==
    /\ ~ leader
    /\ leader' = TRUE
    /\ UNCHANGED <<config, secret, store, requests, databag, statuses, last>>
    /\ UNCHANGED <<retryVars, sideVars>>

Init == EngineInit /\ RetryInit /\ SideIdle

\* The change of the secret store during a pass is explored under the
\* periodic refresh; every handler runs the same reconcile_buckets.
Next ==
    \/ OnStart
    \/ \E flipAt \in 1..(5 + MaxRelations), flipTo \in EngineSecrets :
          OnUpdateStatus(flipAt, flipTo)
    \/ OnConfigChanged
    \/ \E secret_id \in SecretIds : OnSecretChanged(secret_id)
    \/ \E r \in Relations, bucket_added \in BOOLEAN : OnRelationChanged(r, bucket_added)
    \/ \E r \in Relations : OnRelationBroken(r)
    \/ LeaderElected

Spec == Init /\ [][Next]_vars

(***************************************************************************)
(* decode_secret_key_with_retry (utils/secrets.py) as a state machine:     *)
(* one step per attempt.                                                   *)
(***************************************************************************)
RetryCall ==
    /\ rPhase \in {"idle", "done"}
    /\ rCalls < MaxCalls
    /\ rPhase' = "running"
    /\ rAttempts' = 0
    /\ rWaited' = 0
    /\ rOutcomes' = << >>
    /\ rHistory' = << >>
    /\ rResult' = None
    /\ rCalls' = rCalls + 1
    /\ rStatuses' = << >>
    /\ UNCHANGED <<engineVars, sideVars>>

\* One attempt: decode_secret_key runs against the outcome o of the store;
\* tenacity then returns or re-raises its result, or waits and retries.
\* GeneralEvents.get_statuses turns what the call ends with into statuses.
RetryAttempt(o) ==
    LET result == decode_secret_key(o)
        attempt_number == rAttempts + 1
    IN  /\ rPhase = "running"
        /\ rAttempts' = attempt_number
        /\ rOutcomes' = Append(rOutcomes, o)
        /\ rHistory' = Append(rHistory, result)
        /\ IF retry_if_exception_type(result) /\ ~ stop_after_attempt(attempt_number)
           THEN /\ rWaited' = rWaited + WaitFixed
                /\ UNCHANGED <<rPhase, rResult, rStatuses>>
           ELSE /\ rPhase' = "done"
                /\ rResult' = result
                /\ rStatuses' = GeneralEvents_get_statuses(result)
                /\ UNCHANGED rWaited
        /\ UNCHANGED rCalls
        /\ UNCHANGED <<engineVars, sideVars>>

NextSecret ==
    \/ RetryCall
    \/ \E o \in StoreOutcomes : RetryAttempt(o)

InitSecret == EngineIdle /\ RetryInit /\ SideIdle

SpecSecret == InitSecret /\ [][NextSecret]_vars

(***************************************************************************)
(* Vocabulary of the properties.                                           *)
(***************************************************************************)
\* The last handler was a pass of the leader that ran to its end: the
\* configuration was valid and the credentials resolved at every use.
LeaderCompleted == last.leader /\ last.mode = "completed"

\* The last pass wrote a payload to the consumer r.
Published(r) == r \in DOMAIN last.writes

\* The last pass asked the object store about the bucket name.
Asked(name) == \E i \in DOMAIN last.calls : last.calls[i][2] = name

\* Ensure-or-create of name succeeded / failed in the last pass.  A bucket
\* that was ensured is present afterwards, one that was not is not.
EnsureOK(name) == Asked(name) /\ store[name] = "present"

EnsureFailed(name) == Asked(name) /\ store[name] # "present"

GrammarValid(name) == BUCKET_REGEX(CharsOf[name])

UnavailableStatuses == {i \in DOMAIN statuses : statuses[i].kind = "bucket_unavailable"}

InvalidStatuses == {i \in DOMAIN statuses : statuses[i].kind = "bucket_name_invalid"}

NotGranted == Err("NotGranted", << >>)

C2_UnavailableWithheld ==
    (LeaderCompleted /\ config.bucket = "")
    => \A r \in DOMAIN requests :
          (/\ requests[r].bucket # ""
           /\ GrammarValid(requests[r].bucket)
           /\ EnsureFailed(requests[r].bucket))
          => ~ Published(r)

\* C3: independence.  With the configured bucket unset and two consumers
\* requesting distinct valid buckets of which one cannot be ensured, the
\* consumer whose bucket was ensured is published its payload, with that
\* bucket, whichever of the two is processed first.
C3_Independence ==
    (LeaderCompleted /\ config.bucket = "")
    => \A r \in DOMAIN requests, q \in DOMAIN requests :
          (/\ requests[r].bucket # "" /\ GrammarValid(requests[r].bucket)
           /\ requests[q].bucket # "" /\ GrammarValid(requests[q].bucket)
           /\ requests[r].bucket # requests[q].bucket
           /\ EnsureOK(requests[r].bucket)
           /\ EnsureFailed(requests[q].bucket))
          => /\ Published(r)
             /\ Get(last.writes[r], "bucket") = requests[r].bucket
             /\ Get(databag[r], "bucket") = requests[r].bucket

\* The consumer processed first is the one whose bucket cannot be ensured.
C3_Witness ==
    /\ LeaderCompleted
    /\ config.bucket = ""
    /\ DOMAIN requests = {1, 2}
    /\ requests[1].bucket = "bk1" /\ EnsureFailed("bk1")
    /\ requests[2].bucket = "bk2" /\ EnsureOK("bk2")
    /\ ~ Published(1)
    /\ Published(2)

\* C4 (as stated): with the configured bucket unset, every consumer that
\* requests a name violating the grammar is withheld and the name is
\* recorded in the bucket-invalid status, also when several consumers
\* request the same invalid name.
C4_InvalidWithheld ==
    (LeaderCompleted /\ config.bucket = "")
    => \A r \in DOMAIN requests :
          (requests[r].bucket # "" /\ ~ GrammarValid(requests[r].bucket))
          => /\ ~ Published(r)
             /\ \E i \in InvalidStatuses :
                   requests[r].bucket \in Range(statuses[i].names)

C6_NeverPartial ==
    [][ /\ \A r \in DOMAIN last'.writes :
              /\ Get(last'.writes[r], "access-key") # ""
              /\ Get(last'.writes[r], "secret-key") # ""
              /\ Get(databag'[r], "access-key") # ""
              /\ Get(databag'[r], "secret-key") # ""
        /\ (ContextS3(config, secret) = None /\ ContextS3(config, secret') = None)
           => /\ last'.writes = EmptyDict
              /\ \A r \in DOMAIN databag' : databag'[r] = databag[r] ]_vars

C6_Witness ==
    /\ LeaderCompleted
    /\ Cardinality(DOMAIN last.writes) = 2
    /\ \A r \in DOMAIN last.writes :
          /\ databag[r]["access-key"] = "AK1"
          /\ databag[r]["secret-key"] = "SK1"

C7_ThreeAttempts ==
    /\ rAttempts <= StopAfterAttempt
    /\ (rAttempts > 0 /\ \A i \in DOMAIN rHistory : rHistory[i] = NotGranted)
       => /\ rPhase = "running"
             => rAttempts < StopAfterAttempt /\ rWaited = rAttempts * WaitFixed
          /\ rPhase = "done"
             => /\ rAttempts = 3
                /\ rWaited = 2 * 5
                /\ rResult = NotGranted

C7_Witness ==
    /\ rPhase = "done"
    /\ rAttempts = 3
    /\ rHistory = <<NotGranted, NotGranted, NotGranted>>
    /\ rResult = NotGranted

\* C8: only NotGranted is retried.  Every attempt that was followed by
\* another one ended with NotGranted; an attempt that ends otherwise is the
\* last one and its result is what the resolver returns.
C8_OnlyNotGrantedRetried ==
    /\ \A i \in DOMAIN rHistory : i < Len(rHistory) => rHistory[i] = NotGranted
    /\ (rAttempts > 0 /\ rHistory[rAttempts] # NotGranted)
       => /\ rPhase = "done"
          /\ rResult = rHistory[rAttempts]
          /\ Len(rHistory) = rAttempts
    /\ (rAttempts > 0 /\ rHistory[1] # NotGranted) => rAttempts = 1

\* A failure other than NotGranted on the first attempt: one invocation.
C8_Witness ==
    /\ rPhase = "done"
    /\ rAttempts = 1
    /\ rResult = Err("DoesNotExist", << >>)

\* C9 (as stated): every invocation ends with credentials or with one of the
\* four errors; an error of the store reporting "permission denied" is
\* NotGranted, a not-found error DoesNotExist, any other fault DecodeError.
C9_ClassificationAsStated ==
    \A i \in DOMAIN rHistory :
       /\ rHistory[i].kind = "error" => rHistory[i].error \in SecretErrors
       /\ rOutcomes[i].kind = "raise"
          => /\ (rOutcomes[i].denied /\ rOutcomes[i].type # "SecretNotFoundError")
                => rHistory[i] = NotGranted
             /\ (rOutcomes[i].type = "SecretNotFoundError" /\ ~ rOutcomes[i].denied)
                => rHistory[i] = Err("DoesNotExist", << >>)
             /\ (rOutcomes[i].type # "SecretNotFoundError" /\ ~ rOutcomes[i].denied)
                => rHistory[i] = Err("DecodeError", << >>)

\* C9 (amended): every invocation ends with credentials or with one of the
\* four errors.  A not-found error and a ValueError are DoesNotExist,
\* whatever their message; any other ModelError whose message contains
\* "permission denied" is NotGranted; any other fault is DecodeError.  A
\* content with an empty or absent required field is FieldMissing, naming
\* the fields.
C9_Classification ==
    \A i \in DOMAIN rHistory :
       /\ rHistory[i].kind = "error" => rHistory[i].error \in SecretErrors
       /\ rOutcomes[i].kind = "raise"
          => rHistory[i] =
                IF rOutcomes[i].type \in {"SecretNotFoundError", "ValueError"}
                THEN Err("DoesNotExist", << >>)
                ELSE IF rOutcomes[i].type = "ModelError" /\ rOutcomes[i].denied
                     THEN NotGranted
                     ELSE Err("DecodeError", << >>)
       /\ rOutcomes[i].kind = "content"
          => rHistory[i] =
                IF rOutcomes[i].ak # "" /\ rOutcomes[i].sk # ""
                THEN Ok(rOutcomes[i].ak, rOutcomes[i].sk)
                ELSE Err("FieldMissing", missing_fields(rOutcomes[i]))

\* A ValueError of the store, after a retried NotGranted, ends the call
\* with DoesNotExist.
C9_Witness ==
    /\ rPhase = "done"
    /\ rOutcomes = <<Raise("ModelError", TRUE), Raise("ValueError", FALSE)>>
    /\ rHistory = <<NotGranted, Err("DoesNotExist", << >>)>>

(***************************************************************************)
(* Further properties of the reconciliation pass.                          *)
(***************************************************************************)
\* C11: with the configured bucket unset, a consumer that requested no
\* bucket is published the base payload: the credentials and the resolved
\* path, and no bucket key; a consumer of the same pass whose requested,
\* valid bucket was ensured is published that bucket.
C11_NoRequestNoBucketKey ==
    (LeaderCompleted /\ config.bucket = "")
    => \A r \in DOMAIN requests :
          /\ requests[r].bucket = ""
             => /\ Published(r)
                /\ "bucket" \notin DOMAIN last.writes[r]
                /\ Get(last.writes[r], "access-key") # ""
                /\ Get(last.writes[r], "secret-key") # ""
                /\ Get(last.writes[r], "path")
                      = ResolvedPath(config.path, requests[r].path)
          /\ (/\ requests[r].bucket # ""
              /\ GrammarValid(requests[r].bucket)
              /\ EnsureOK(requests[r].bucket))
             => /\ Published(r)
                /\ Get(last.writes[r], "bucket") = requests[r].bucket

\* Consumer 1 requests the creatable "bk2", consumer 2 requests nothing.
C11_Witness ==
    /\ LeaderCompleted
    /\ config.bucket = ""
    /\ DOMAIN requests = {1, 2}
    /\ requests[1].bucket = "bk2"
    /\ requests[2].bucket = ""
    /\ <<"create", "bk2">> \in Range(last.calls)
    /\ Published(1)
    /\ last.writes[1]["bucket"] = "bk2"
    /\ Published(2)
    /\ "bucket" \notin DOMAIN last.writes[2]

\* C12 (as stated): no handler ends with an uncaught error, whatever the
\* configuration, the secret store and the object store answer, also when
\* the answers differ between the reads of one pass: the handler runs to
\* its end and a status is recorded for the pass it ran.
C12_NoUncaughtError ==
    /\ last.mode # "crashed"
    /\ last.mode = "completed" => statuses # << >>

\* C13: a unit that is not the leader writes to no consumer's payload and
\* creates no bucket, whichever handler runs: the payloads of the remaining
\* consumers and the object store stay as they were, and the handler made
\* no write and no call of the store.
C13_NonLeaderWritesNothing ==
    [][ (~ leader /\ ~ leader')
        => /\ store' = store
           /\ \A r \in DOMAIN databag' : r \in DOMAIN databag /\ databag'[r] = databag[r]
           /\ statuses' = statuses
           /\ last'.writes = EmptyDict
           /\ last'.calls = << >> ]_vars

\* A handler has run on a unit that is not the leader while a consumer was
\* waiting for a bucket the store would create.
C13_Witness ==
    /\ ~ leader
    /\ last.mode = "skipped"
    /\ CharmConfigValid(config)
    /\ \E r \in DOMAIN requests :
          /\ requests[r].bucket = "bk2"
          /\ databag[r] = EmptyDict
    /\ store["bk2"] = "absent"

\* A bucket-level problem occurred in the last pass: the configured bucket
\* is set and was not ensured, or a consumer was withheld.
BucketProblem ==
    \/ config.bucket # "" /\ ~ EnsureOK(config.bucket)
    \/ \E r \in DOMAIN requests : ~ Published(r)

\* C14: after every pass that ran to its end, the active status is recorded
\* if and only if no bucket-level problem occurred in the pass; otherwise
\* every recorded status is blocked, and there is one; the active status is
\* never recorded together with a bucket-unavailable or bucket-invalid one.
C14_ActiveIffNoProblem ==
    LeaderCompleted
    => /\ (ACTIVE_IDLE \in Range(statuses)) <=> ~ BucketProblem
       /\ BucketProblem
          => /\ statuses # << >>
             /\ \A i \in DOMAIN statuses : statuses[i].status = "blocked"
       /\ ~ (/\ ACTIVE_IDLE \in Range(statuses)
             /\ UnavailableStatuses \cup InvalidStatuses # {})

\* One consumer is withheld, the other is published: blocked.
C14_Witness ==
    /\ LeaderCompleted
    /\ DOMAIN requests = {1, 2}
    /\ Published(1)
    /\ ~ Published(2)
    /\ statuses = <<bucket_unavailable(<<"bk1">>)>>

\* The place of a bucket name in Python's sorted(): "." sorts before the
\* letters, "1" before "2".
SortRank == [n \in StoreNames |-> CASE n = "b.k" -> 1 [] n = "bk1" -> 2 [] n = "bk2" -> 3]

IsSorted(names) ==
    \A i \in DOMAIN names, j \in DOMAIN names :
       i < j => SortRank[names[i]] <= SortRank[names[j]]

\* C15 (as stated): whenever a pass ends blocked on buckets, the names
\* listed in the bucket-unavailable and in the bucket-invalid status are in
\* sorted order.
C15_NamesSorted ==
    LeaderCompleted
    => \A i \in UnavailableStatuses \cup InvalidStatuses : IsSorted(statuses[i].names)

\* Every payload of the last pass carries the credentials now in the secret:
\* the credentials did not change under the pass between two payloads.
LastPassCredentials ==
    \A r \in DOMAIN last.writes :
       /\ Get(last.writes[r], "access-key") = secret.ak
       /\ Get(last.writes[r], "secret-key") = secret.sk

\* C16: a completed pass of the leader that follows a completed pass with the
\* same configuration, credentials and consumer requests publishes the same
\* payloads and records the same statuses as the first, leaves the store as
\* it was, and issues no create call for a bucket that exists.
C16_Idempotent ==
    [][ ( /\ LeaderCompleted
          /\ LastPassCredentials
          /\ last'.leader /\ last'.mode = "completed"
          /\ config' = config /\ secret' = secret /\ requests' = requests )
        => /\ last'.writes = last.writes
           /\ statuses' = statuses
           /\ store' = store
           /\ \A i \in DOMAIN last'.calls :
                 last'.calls[i][1] = "create" => store[last'.calls[i][2]] # "present"
      ]_vars

\* a second pass found the bucket "bk2" that an earlier pass created and
\* published it without a create call
C16_Witness ==
    /\ LeaderCompleted
    /\ store["bk2"] = "present"
    /\ \E r \in DOMAIN requests : requests[r].bucket = "bk2" /\ Published(r)
    /\ last.calls # << >>
    /\ \A i \in DOMAIN last.calls : last.calls[i][1] # "create"

\* C17 (as stated): with no bucket in the configuration, a consumer whose
\* requested bucket, of a valid name, is ensured is published with that
\* bucket and, when it requested a path, with the path it requested.
C17_OwnPath ==
    (LeaderCompleted /\ config.bucket = "")
    => \A r \in DOMAIN requests :
          ( /\ requests[r].bucket # "" /\ GrammarValid(requests[r].bucket)
            /\ EnsureOK(requests[r].bucket) )
          => /\ Published(r)
             /\ Get(last.writes[r], "bucket") = requests[r].bucket
             /\ requests[r].path # "" => Get(last.writes[r], "path") = requests[r].path

\* C17: with no bucket in the configuration, a consumer whose requested
\* bucket, of a valid name, is ensured is published with that bucket, and with the configured
\* path when one is configured, with the path it requested otherwise.
C17_ConfigPathFirst ==
    (LeaderCompleted /\ config.bucket = "")
    => \A r \in DOMAIN requests :
          ( /\ requests[r].bucket # "" /\ GrammarValid(requests[r].bucket)
            /\ EnsureOK(requests[r].bucket) )
          => /\ Published(r)
             /\ Get(last.writes[r], "bucket") = requests[r].bucket
             /\ config.path # "" => Get(last.writes[r], "path") = config.path
             /\ config.path = "" => Get(last.writes[r], "path") = requests[r].path

\* a path is configured without a bucket, and the consumer that requested
\* "bk1" under its own path "rp" is published with the configured path
C17_Witness ==
    /\ LeaderCompleted
    /\ config.bucket = "" /\ config.path = "cp"
    /\ \E r \in DOMAIN requests :
          /\ requests[r] = Request("bk1", "rp")
          /\ EnsureOK("bk1")
          /\ Published(r)
          /\ Get(last.writes[r], "bucket") = "bk1"
          /\ Get(last.writes[r], "path") = "cp"

\* C18: when the configuration names a bucket and that bucket is ensured,
\* every consumer is published with the configured path if one is
\* configured, and with the path it requested itself otherwise.
C18_SharedBucketPath ==
    (LeaderCompleted /\ config.bucket # "" /\ EnsureOK(config.bucket))
    => \A r \in DOMAIN requests :
          /\ Published(r)
          /\ "path" \in DOMAIN last.writes[r]
          /\ last.writes[r]["path"] = IF config.path # "" THEN config.path
                                      ELSE requests[r].path

\* the bucket "bk1" of the configuration is ensured, no path is configured,
\* and of two consumers one is published with the path "rp" it requested,
\* the other with the empty path
C18_Witness ==
    /\ LeaderCompleted
    /\ config.bucket = "bk1" /\ config.path = "" /\ EnsureOK("bk1")
    /\ \E r, q \in DOMAIN requests :
          /\ requests[r].path = "rp" /\ Published(r)
          /\ Get(last.writes[r], "path") = "rp"
          /\ requests[q].path = "" /\ Published(q)
          /\ Get(last.writes[q], "path") = ""

\* C19: a completed pass of the leader with a configured bucket that is
\* absent from the store creates that bucket, whether or not there are
\* consumers; when there are none, the pass writes no payload and records the
\* active status only.
C19_CreatedWithoutConsumers ==
    [][ ( /\ last'.leader /\ last'.mode = "completed"
          /\ config.bucket # ""
          /\ store[config.bucket] = "absent" )
        => /\ \E i \in DOMAIN last'.calls : last'.calls[i] = <<"create", config.bucket>>
           /\ store'[config.bucket] = "present"
           /\ DOMAIN requests' = {}
              => /\ last'.writes = EmptyDict
                 /\ databag' = EmptyDict
                 /\ statuses' = <<ACTIVE_IDLE>>
      ]_vars

\* the bucket "bk1" of the configuration was created by a pass that found no
\* consumer, wrote nothing and ended active
C19_Witness ==
    /\ LeaderCompleted
    /\ config.bucket = "bk1"
    /\ DOMAIN requests = {}
    /\ last.calls = << <<"get", "bk1">>, <<"create", "bk1">>, <<"get", "bk1">> >>
    /\ store["bk1"] = "present"
    /\ last.writes = EmptyDict
    /\ statuses = <<ACTIVE_IDLE>>

(***************************************************************************)
(* Further properties of the secret resolver.                              *)
(***************************************************************************)
\* The required fields that the content o of the secret lacks.
AbsentFields(o) ==
    {f \in {"access-key", "secret-key"} :
        \/ f = "access-key" /\ o.ak = ""
        \/ f = "secret-key" /\ o.sk = ""}

\* C20: when the secret is read and its content lacks a required field, the
\* attempt ends with FieldMissing, never with another error, listing each
\* absent required field once and no other; a call that ends so yields one
\* status, which is blocked and names exactly those fields.
C20_FieldMissingNamed ==
    \A i \in DOMAIN rHistory :
       (rOutcomes[i].kind = "content" /\ AbsentFields(rOutcomes[i]) # {})
       => /\ rHistory[i].kind = "error"
          /\ rHistory[i].error = "FieldMissing"
          /\ Range(rHistory[i].fields) = AbsentFields(rOutcomes[i])
          /\ Len(rHistory[i].fields) = Cardinality(AbsentFields(rOutcomes[i]))
          /\ i = Len(rHistory)
             => /\ rPhase = "done"
                /\ rResult = rHistory[i]
                /\ Len(rStatuses) = 1
                /\ rStatuses[1].status = "blocked"
                /\ rStatuses[1].kind = "field_missing_in_secret"
                /\ Range(rStatuses[1].names) = AbsentFields(rOutcomes[i])
                /\ Len(rStatuses[1].names) = Cardinality(AbsentFields(rOutcomes[i]))

\* after a retried NotGranted the secret is read and holds neither field:
\* the call ends with FieldMissing for both, and the status names both
C20_Witness ==
    /\ rPhase = "done"
    /\ rOutcomes = <<Raise("ModelError", TRUE), Content("", "")>>
    /\ rResult = Err("FieldMissing", <<"access-key", "secret-key">>)
    /\ rStatuses = <<field_missing_in_secret(<<"access-key", "secret-key">>)>>

(***************************************************************************)
(* Properties of the triggers of the pass.                                 *)
(***************************************************************************)
\* The credentials of the configuration resolve.
Resolvable == CharmConfigValid(config) /\ secret.kind = "content"

\* C21 (as stated): on the leader with valid configuration and resolvable
\* credentials, the relation-changed event of a consumer ends with a payload
\* holding the credentials written to that consumer, also when the
\* consumer's data holds no bucket request.
C21_RelationChangedPublishes ==
    [][ \A r \in Relations, bucket_added \in BOOLEAN :
           ( /\ leader /\ Resolvable /\ config.bucket = ""
             /\ r \in DOMAIN requests /\ requests[r].bucket = ""
             /\ OnRelationChanged(r, bucket_added) )
           => /\ r \in DOMAIN last'.writes
              /\ Get(last'.writes[r], "access-key") = secret.ak
              /\ Get(last'.writes[r], "secret-key") = secret.sk
      ]_vars

MASK == "**********"

\* A plausible slip: the secret key is left as it is.
mask_results_access_key_only(results) ==
    [k \in DOMAIN results |-> IF k = "access-key" THEN MASK ELSE results[k]]

\* lines 35-40: the results without the None values, the two keys masked
mask_results(results) ==
    [k \in DOMAIN results |->
        IF k \in {"access-key", "secret-key"} THEN MASK ELSE results[k]]

\* event.fail(message) / event.set_results(results) / an uncaught exception
ActionFailed(message) == [outcome |-> "failed", message |-> message, results |-> None]

ActionResults(results) == [outcome |-> "results", message |-> "", results |-> results]

ActionCrashed(exception) == [outcome |-> "crashed", message |-> exception, results |-> None]

\* ActionEvents.on_get_connection_info_action: first and second are what the
\* secret store answers to the two reads of self.context.s3
on_get_connection_info_action(cfg, first, second) ==
    IF ContextS3(cfg, first) = None
    THEN ActionFailed("Credentials are not set!")
    ELSE IF ContextS3(cfg, second) = None
         THEN ActionCrashed("AttributeError")
         ELSE ActionResults(mask_results(ContextS3(cfg, second)))

\* The operator runs the action; the secret store answers `second` from the
\* second read on.
OnGetConnectionInfoAction(second) ==
    /\ action' = on_get_connection_info_action(config, secret, second)
    /\ secret' = second
    /\ UNCHANGED <<leader, config, store, requests, databag, statuses, last>>
    /\ UNCHANGED <<retryVars, validation, naming, gcs, proxy, handling, requirer, azure>>

InitAction ==
    /\ leader \in BOOLEAN
    /\ config \in Configs
    /\ secret \in StoreOutcomes
    /\ store = [n \in StoreNames |-> "absent"]
    /\ requests = EmptyDict
    /\ databag = EmptyDict
    /\ statuses = << >>
    /\ last = NoPass
    /\ RetryInit
    /\ SideIdle

NextAction == \E second \in StoreOutcomes : OnGetConnectionInfoAction(second)

SpecAction == InitAction /\ [][NextAction]_vars

\* The plaintext keys of the secret store.
Plaintext == {o.ak : o \in {x \in StoreOutcomes : x.kind = "content"}}
             \cup {o.sk : o \in {x \in StoreOutcomes : x.kind = "content"}}

\* C23: the results of the action hold the mask for access-key and for
\* secret-key and, besides them, the set options of the configuration, so
\* that they do not depend on the content of the secret and hold none of
\* its keys; when the configuration is invalid or the secret is not readable
\* with both keys as the action starts, the action fails with a message and
\* returns no results.
C23_MaskedOrFailed ==
    [][ /\ action'.outcome = "results"
           => /\ DOMAIN action'.results =
                    {"access-key", "secret-key"}
                    \cup {k \in {"bucket", "path"} : config[k] # ""}
              /\ action'.results["access-key"] = MASK
              /\ action'.results["secret-key"] = MASK
              /\ \A k \in DOMAIN action'.results \ {"access-key", "secret-key"} :
                    action'.results[k] = config[k]
              /\ \A k \in DOMAIN action'.results :
                    action'.results[k] \notin Plaintext \ {""}
        /\ ( \/ config.credentials \notin ValidSecretRefs
             \/ secret.kind = "raise"
             \/ secret.kind = "content" /\ (secret.ak = "" \/ secret.sk = "") )
           => /\ action'.outcome = "failed"
              /\ action'.message # ""
              /\ action'.results = None
      ]_vars

\* with the secret holding AK2 and SK2 the action returned the masked keys and
\* the configured bucket
C23_Witness ==
    /\ action # None
    /\ action.outcome = "results"
    /\ secret = Content("AK2", "SK2")
    /\ config = Config("bk1", "", "secret:cred")
    /\ action.results = ("access-key" :> MASK) @@ ("secret-key" :> MASK)
                        @@ ("bucket" :> "bk1")

(***************************************************************************)
(* Validation of the configuration (core/domain.py, CharmConfig, and       *)
(* events/general.py, get_statuses).                                       *)
(*                                                                         *)
(* charm.config maps the options that have a value to that value; an       *)
(* option that was never set and has no default is not among its keys.     *)
(* Of the options of CharmConfig the model keeps five, in the order of     *)
(* their declaration.  "chain" is a base64 text holding certificates,      *)
(* "junk" one that does not decode.                                        *)
(***************************************************************************)
CharmConfigFields ==
    <<"endpoint", "bucket", "tls-ca-chain", "s3-api-version", "credentials">>

OptionValues ==
    [endpoint |-> {""},
     bucket |-> {"", "bk1", "b.k"},
     tls_ca_chain |-> {"", "chain", "junk"},
     s3_api_version |-> {"", "4", "3"},
     credentials |-> {"", "secret:cred", "label"}]

\* The maps charm.config can be: endpoint and s3-api-version may have no
\* value, as may bucket, tls-ca-chain and credentials.
CharmConfigs ==
    UNION {
      { [f \in present |->
            CASE f = "endpoint" -> ""
              [] f = "bucket" -> b
              [] f = "tls-ca-chain" -> t
              [] f = "s3-api-version" -> v
              [] f = "credentials" -> c] :
        b \in OptionValues.bucket, t \in OptionValues.tls_ca_chain,
        v \in OptionValues.s3_api_version, c \in OptionValues.credentials }
      : present \in {p \in SUBSET Range(CharmConfigFields) :
                        {"bucket", "s3-api-version"} \subseteq p} }

\* The fields declared without a default: a ValidationError of type
\* "missing" when charm.config has no such key.
RequiredFields == {"endpoint", "tls-ca-chain", "credentials"}

\* SECRET_REGEX
SECRET_REGEX(value) == value \in ValidSecretRefs

\* The error of pydantic for one field of CharmConfig: "missing", the type
\* of another error, or "" when the field validates.
field_error(charm_config, f) ==
    IF f \notin DOMAIN charm_config
    THEN IF f \in RequiredFields THEN "missing" ELSE ""
    ELSE LET value == charm_config[f]
         IN  CASE f = "endpoint" -> ""
               [] f = "bucket" ->
                     IF value = "" \/ BUCKET_REGEX(CharsOf[value])
                     THEN "" ELSE "string_pattern_mismatch"
               [] f = "tls-ca-chain" ->
                     IF value \in {"", "chain"} THEN "" ELSE "value_error"
               [] f = "s3-api-version" ->
                     IF value \in {"", "2", "4"} THEN "" ELSE "literal_error"
               [] f = "credentials" ->
                     IF SECRET_REGEX(value) THEN "" ELSE "string_pattern_mismatch"

\* ex.errors(): one error per failing field, in the order of declaration
RECURSIVE errors_from(_, _)
errors_from(charm_config, i) ==
    IF i > Len(CharmConfigFields)
    THEN << >>
    ELSE LET f == CharmConfigFields[i]
             e == field_error(charm_config, f)
         IN  (IF e = "" THEN << >> ELSE << [loc |-> f, type |-> e] >>)
             \o errors_from(charm_config, i + 1)

\* A plausible slip: validation stops at the first failing field.
errors_first_only(charm_config) ==
    IF errors_from(charm_config, 1) = << >>
    THEN << >>
    ELSE << errors_from(charm_config, 1)[1] >>

errors(charm_config) == errors_from(charm_config, 1)

IsMissing(e) == e.type = "missing"

IsNotMissing(e) == e.type # "missing"

\* The loc of the errors that are (missing = TRUE) or are not of type
\* "missing", in the order of errs.
SelectLoc(errs, missing) ==
    LET idx == {i \in DOMAIN errs : IF missing THEN IsMissing(errs[i])
                                                ELSE IsNotMissing(errs[i])}
        F[i \in 0..Len(errs)] ==
            IF i = 0 THEN << >>
            ELSE IF i \in idx THEN Append(F[i - 1], errs[i].loc) ELSE F[i - 1]
    IN  F[Len(errs)]

missing_config_parameters(fields) ==
    [status |-> "blocked", kind |-> "missing_config_parameters", names |-> fields]

invalid_config_parameters(fields) ==
    [status |-> "blocked", kind |-> "invalid_config_parameters", names |-> fields]

\* GeneralEvents.get_statuses, lines 90-103: the statuses of the validation
validation_statuses(charm_config) ==
    LET missing == SelectLoc(errors(charm_config), TRUE)
        invalid == SelectLoc(errors(charm_config), FALSE)
    IN  (IF missing # << >> THEN <<missing_config_parameters(missing)>> ELSE << >>)
        \o (IF invalid # << >> THEN <<invalid_config_parameters(invalid)>> ELSE << >>)

\* GeneralEvents.get_statuses as a whole: result is what
\* decode_secret_key_with_retry ends with when it is called.
get_statuses(charm_config, result) ==
    LET status_list == validation_statuses(charm_config)
    IN  IF Get(charm_config, "credentials") = ""
        THEN status_list
        ELSE IF result.kind = "error"
             THEN status_list \o GeneralEvents_get_statuses(result)
             ELSE IF status_list = << >> THEN <<ACTIVE_IDLE>> ELSE status_list

\* The statuses of the component are collected; o is what the secret store
\* answers.
CollectStatus(o) ==
    /\ validation' = [validation EXCEPT
                         !.statuses = get_statuses(validation.config, decode_secret_key(o))]
    /\ UNCHANGED <<engineVars, retryVars, action, naming, gcs, proxy, handling, requirer, azure>>

ValidationSecrets ==
    {Content("AK1", "SK1"), Content("AK1", ""), Raise("SecretNotFoundError", FALSE)}

InitConfig ==
    /\ EngineIdle
    /\ RetryInit
    /\ \E c \in CharmConfigs : validation = [config |-> c, statuses |-> << >>]
    /\ action = None /\ naming = None /\ gcs = None /\ proxy = None /\ handling = None /\ requirer = None /\ azure = None

NextConfig == \E o \in ValidationSecrets : CollectStatus(o)

SpecConfig == InitConfig /\ [][NextConfig]_vars

\* The place of an option name in Python's sorted().
FieldRank ==
    [f \in Range(CharmConfigFields) |->
        CASE f = "bucket" -> 1 [] f = "credentials" -> 2 [] f = "endpoint" -> 3
          [] f = "s3-api-version" -> 4 [] f = "tls-ca-chain" -> 5]

FieldsSorted(names) ==
    \A i \in DOMAIN names, j \in DOMAIN names :
       i < j => FieldRank[names[i]] <= FieldRank[names[j]]

\* The names the statuses of the given kind list.
NamesOf(kind) ==
    UNION {Range(validation.statuses[i].names) :
             i \in {j \in DOMAIN validation.statuses : validation.statuses[j].kind = kind}}

\* The fields of charm.config that fail validation.
FailingFields ==
    {f \in Range(CharmConfigFields) :
        \/ f \in RequiredFields /\ f \notin DOMAIN validation.config
        \/ f = "bucket" /\ Get(validation.config, f) = "b.k"
        \/ f = "tls-ca-chain" /\ Get(validation.config, f) = "junk"
        \/ f = "s3-api-version" /\ Get(validation.config, f) = "3"
        \/ f = "credentials" /\ f \in DOMAIN validation.config
           /\ validation.config[f] # "secret:cred"}

Collected == validation # None /\ validation.statuses # << >>

\* C24 (as stated): the statuses collected for a configuration name every
\* failing field, and the names each status lists are sorted.
C24_AllFieldsSorted ==
    Collected
    => /\ FailingFields \subseteq
             NamesOf("missing_config_parameters") \cup NamesOf("invalid_config_parameters")
       /\ \A i \in DOMAIN validation.statuses : FieldsSorted(validation.statuses[i].names)

\* C25 (as stated): the required option credentials, when it is absent or
\* empty, is listed by the status of the missing options and not by the
\* status of the invalid ones; an option that is set to a malformed value is
\* listed by the status of the invalid options; either status is blocked.
C25_EmptyIsMissing ==
    Collected
    => /\ ("credentials" \notin DOMAIN validation.config
            \/ Get(validation.config, "credentials") = "")
          => /\ "credentials" \in NamesOf("missing_config_parameters")
             /\ "credentials" \notin NamesOf("invalid_config_parameters")
       /\ \A f \in DOMAIN validation.config :
             (f \in FailingFields /\ validation.config[f] # "")
             => f \in NamesOf("invalid_config_parameters")
       /\ FailingFields # {}
          => \A i \in DOMAIN validation.statuses : validation.statuses[i].status = "blocked"

(***************************************************************************)
(* Matching of bucket names (core/domain.py, BUCKET_REGEX, as used by      *)
(* CharmConfig and by reconcile_buckets, line 140).  The names are built   *)
(* from a beginning, a run of "a" and an end, so that every rule of the    *)
(* grammar and both limits of the length are met.                          *)
(***************************************************************************)
MaxBody == 64

MaxMatches == 2

Repeat(c, k) == [i \in 1..k |-> c]

NameBeginnings == {<< >>, <<"x", "n", "-", "-">>, <<"-">>, <<"A">>, <<"b">>}

NameEnds ==
    {<< >>, <<"-", "s", "3", "a", "l", "i", "a", "s">>, <<"-">>, <<"\n">>,
     <<".">>, <<"-", "k">>}

Names ==
    {b \o Repeat("a", k) \o e : b \in NameBeginnings, k \in 0..MaxBody, e \in NameEnds}
    \ {<< >>}

\* re.match(BUCKET_REGEX, name), once more
MatchName ==
    /\ Len(naming.results) < MaxMatches
    /\ naming' = [naming EXCEPT !.results = Append(@, BUCKET_REGEX(naming.name))]
    /\ UNCHANGED <<engineVars, retryVars, action, validation, gcs, proxy, handling, requirer, azure>>

InitNaming ==
    /\ EngineIdle
    /\ RetryInit
    /\ \E n \in Names : naming = [name |-> n, results |-> << >>]
    /\ action = None /\ validation = None /\ gcs = None /\ proxy = None /\ handling = None /\ requirer = None /\ azure = None

NextNaming == MatchName

SpecNaming == InitNaming /\ [][NextNaming]_vars

\* The grammar as the specification words it.
GrammarAsStated(chars) ==
    /\ Len(chars) \in 3..63
    /\ \A i \in DOMAIN chars : chars[i] \in LowerAlnum \cup {"-"}
    /\ chars[1] \in LowerAlnum
    /\ chars[Len(chars)] \in LowerAlnum
    /\ ~ StartsWith(chars, <<"x", "n", "-", "-">>)
    /\ ~ EndsWith(chars, <<"-", "s", "3", "a", "l", "i", "a", "s">>)

\* C26 (as stated): a non-empty name is matched exactly when it has 3 to 63
\* characters, all lowercase letters, digits or hyphens, the first and the
\* last a letter or digit, does not begin with "xn--" and does not end with
\* "-s3alias"; matching it again gives the same result.
C26_GrammarAsStated ==
    naming # None
    => \A i \in DOMAIN naming.results :
          /\ naming.results[i] = GrammarAsStated(naming.name)
          /\ naming.results[i] = naming.results[1]

\* The same for the names that do not end with a newline.
GrammarWithoutNewline ==
    (naming # None /\ naming.name[Len(naming.name)] # "\n")
    => \A i \in DOMAIN naming.results :
          /\ naming.results[i] = GrammarAsStated(naming.name)
          /\ naming.results[i] = naming.results[1]

(***************************************************************************)
(* GCS provider (gcs/src/events/provider.py): the payload published to a   *)
(* consumer and the consumer's overrides.                                  *)
(***************************************************************************)
GcsKeys == {"bucket", "storage-class", "path"}

\* GcsContract: required_info, optional_info and secret_fields.
ContractFields == {"bucket"} \cup {"storage-class", "path"} \cup {"secret-key"}

\* constants.OPTIONAL_OVERRIDE is one string that the sources do not
\* define: every key a consumer can set is a possible value.
OptionalOverrides == GcsKeys

\* The provider's configuration options and the consumer's databag.
GcsConfigs ==
    { [k \in GcsKeys |-> CASE k = "bucket" -> b [] k = "storage-class" -> s [] OTHER -> p] :
        b \in {"", "cfg-bucket"}, s \in {"", "STANDARD"}, p \in {"", "cfg/prefix"} }

GcsRemotes ==
    { [k \in GcsKeys |-> CASE k = "bucket" -> b [] k = "storage-class" -> s [] OTHER -> p] :
        b \in {"", "req-bucket"}, s \in {"", "COLDLINE"}, p \in {"", "req/prefix"} }

\* A dict without its None and "" values.
Compact(raw) == [k \in {k \in DOMAIN raw : raw[k] # ""} |-> raw[k]]

\* GcsConnectionInfo.to_dict
to_dict(cfg) ==
    Compact([k \in GcsKeys |-> IF k = "bucket" THEN cfg.bucket ELSE cfg[k]])
        @@ [k \in {"secret-key"} |-> "sa-json"]

\* Context.gc_storage: None without a bucket.
gc_storage(cfg) == IF cfg.bucket = "" THEN None ELSE to_dict(cfg)

filter_to_contract(payload) ==
    [k \in DOMAIN payload \cap ContractFields |-> payload[k]]

build_payload(cfg) ==
    LET gc  == gc_storage(cfg)
        raw == IF gc # None
               THEN gc
               ELSE [k \in GcsKeys \cup {"secret-key"} |->
                       CASE k = "bucket"        -> cfg.bucket
                         [] k = "storage-class" -> IF cfg[k] # "" THEN cfg[k] ELSE "STANDARD"
                         [] k = "path"          -> cfg[k]
                         [] OTHER               -> "sa-json"]
    IN  filter_to_contract(Compact(raw))

\* Every key of the consumer's databag can override.
merge_requirer_override_all_keys(override, remote, payload) ==
    IF DOMAIN payload = {} THEN payload
    ELSE [k \in {k \in GcsKeys : remote[k] # ""} |-> remote[k]] @@ payload

\* allowed is the key set of contract.overrides, which the constructor
\* fills with the single key OPTIONAL_OVERRIDE.
merge_requirer_override(override, remote, payload) ==
    IF DOMAIN payload = {} THEN payload
    ELSE LET allowed == {override}
         IN  [k \in {k \in allowed : remote[k] # ""} |-> remote[k]] @@ payload

\* None when the payload can be published, else the error message.
validate_payload(payload) ==
    IF DOMAIN payload = {} THEN "empty payload"
    ELSE IF Get(payload, "bucket") = "" THEN "missing required 'bucket'"
    ELSE "None"

\* _publish_to_relation on the consumer's relation.
publish_to_relation(g) ==
    LET payload == merge_requirer_override(g.override, g.remote, build_payload(g.cfg))
        err     == validate_payload(payload)
    IN  IF err # "None"
        THEN [g EXCEPT !.status = "waiting for GCS config: " \o err]
        ELSE [g EXCEPT !.published = payload, !.status = "published GCS credentials"]

\* _on_storage_connection_info_requested, raised when the consumer's
\* databag changes.
OnStorageConnectionInfoRequested(remote) ==
    /\ gcs # None
    /\ remote # gcs.remote
    /\ gcs' = IF gcs.leader
              THEN publish_to_relation([gcs EXCEPT !.remote = remote])
              ELSE [gcs EXCEPT !.remote = remote]
    /\ UNCHANGED <<engineVars, retryVars, action, validation, naming, proxy, handling, requirer, azure>>

\* _on_config_changed: publishes to every relation.
OnGcsConfigChanged(cfg) ==
    /\ gcs # None
    /\ cfg # gcs.cfg
    /\ gcs' = IF gcs.leader
              THEN publish_to_relation([gcs EXCEPT !.cfg = cfg])
              ELSE [gcs EXCEPT !.cfg = cfg]
    /\ UNCHANGED <<engineVars, retryVars, action, validation, naming, proxy, handling, requirer, azure>>

InitGcs ==
    /\ EngineIdle
    /\ RetryInit
    /\ \E o \in OptionalOverrides, l \in BOOLEAN, cfg \in GcsConfigs :
          gcs = [override |-> o, leader |-> l, cfg |-> cfg,
                 remote |-> [k \in GcsKeys |-> ""],
                 published |-> None, status |-> ""]
    /\ action = None /\ validation = None /\ naming = None /\ proxy = None /\ handling = None /\ requirer = None /\ azure = None

NextGcs ==
    \/ \E remote \in GcsRemotes : OnStorageConnectionInfoRequested(remote)
    \/ \E cfg \in GcsConfigs : OnGcsConfigChanged(cfg)

SpecGcs == InitGcs /\ [][NextGcs]_vars

\* C27: in the GCS provider, each of bucket, storage-class and path is
\* published as the consumer's own non-empty override, and otherwise as the
\* provider's configured value.
C27_OverrideOrConfigured ==
    [][ \A remote \in GcsRemotes :
           ( /\ gcs # None /\ gcs.leader /\ gcs.cfg.bucket # ""
             /\ OnStorageConnectionInfoRequested(remote) )
           => \A k \in GcsKeys :
                 Get(gcs'.published, k) =
                     IF remote[k] # "" THEN remote[k] ELSE gcs.cfg[k] ]_vars

\* What the handler does publish: only the key named by OPTIONAL_OVERRIDE
\* follows the consumer, the other two stay the provider's.
C27_OnlyOneKeyOverridden ==
    [][ \A remote \in GcsRemotes :
           ( /\ gcs # None /\ gcs.leader /\ gcs.cfg.bucket # ""
             /\ OnStorageConnectionInfoRequested(remote) )
           => \A k \in GcsKeys :
                 Get(gcs'.published, k) =
                     IF k = gcs.override /\ remote[k] # ""
                     THEN remote[k] ELSE gcs.cfg[k] ]_vars

(***************************************************************************)
(* Premature data access: a handler publishes to a consumer that has not   *)
(* completed its side of the relation handshake, and the library raises    *)
(* PrematureDataAccessError.                                               *)
(***************************************************************************)
MaxConsumers == 2

Consumers == 1..MaxConsumers

\* The handlers that publish to consumers, charm by charm.
S3Handlers ==
    {"s3._on_s3_connection_info_requested", "s3._on_s3_relation_broken",
     "s3._on_update_status", "s3._on_config_changed", "s3._on_secret_changed"}

GcsHandlers ==
    {"gcs._on_storage_connection_info_requested", "gcs._on_config_changed",
     "gcs._on_leader_elected", "gcs._on_start"}

AzureHandlers == {"azure._on_config_changed", "azure._on_secret_changed"}

Handlers == S3Handlers \cup GcsHandlers \cup AzureHandlers

\* The handlers that carry @defer_on_premature_data_access_error.
Decorated ==
    {"s3._on_s3_connection_info_requested", "s3._on_update_status",
     "s3._on_config_changed", "s3._on_secret_changed",
     "azure._on_config_changed", "azure._on_secret_changed"}

\* The handler's body: it publishes to the consumers in order, and the
\* first consumer whose handshake is not complete raises.
FirstPremature(ready) ==
    IF \A c \in Consumers : ready[c] THEN 0
    ELSE CHOOSE c \in Consumers : ~ ready[c] /\ \A d \in Consumers : d < c => ready[d]

publish_all(ready) ==
    LET p == FirstPremature(ready)
    IN  [written |-> IF p = 0 THEN Consumers ELSE {c \in Consumers : c < p},
         raised  |-> IF p = 0 THEN "" ELSE "PrematureDataAccessError"]

\* A handler without a decorator: the exception leaves the handler.
undecorated(outcome) ==
    [written |-> outcome.written, deferred |-> 0, failed |-> outcome.raised # ""]

\* The decorator: PrematureDataAccessError is caught and the event is
\* deferred.
defer_on_premature_data_access_error(outcome) ==
    IF outcome.raised = "PrematureDataAccessError"
    THEN [written |-> outcome.written, deferred |-> 1, failed |-> FALSE]
    ELSE undecorated(outcome)

RunHandler ==
    /\ handling # None
    /\ ~ handling.done
    /\ LET outcome == IF handling.leader
                      THEN publish_all(handling.ready)
                      ELSE [written |-> {}, raised |-> ""]
           result  == IF handling.handler \in Decorated
                      THEN defer_on_premature_data_access_error(outcome)
                      ELSE undecorated(outcome)
       IN  handling' = [handling EXCEPT !.done = TRUE,
                                        !.written = result.written,
                                        !.deferred = result.deferred,
                                        !.failed = result.failed]
    /\ UNCHANGED <<engineVars, retryVars, action, validation, naming, gcs, proxy,
                   requirer, azure>>

InitHandling ==
    /\ EngineIdle
    /\ RetryInit
    /\ \E h \in Handlers, l \in BOOLEAN, ready \in [Consumers -> BOOLEAN] :
          handling = [handler |-> h, leader |-> l, ready |-> ready, done |-> FALSE,
                      written |-> {}, deferred |-> 0, failed |-> FALSE]
    /\ action = None /\ validation = None /\ naming = None /\ gcs = None
    /\ proxy = None /\ requirer = None /\ azure = None

NextHandling == RunHandler

SpecHandling == InitHandling /\ [][NextHandling]_vars

\* The handler ran as leader and met a consumer whose handshake is not
\* complete.
MetPrematureAccess ==
    /\ handling # None /\ handling.done /\ handling.leader
    /\ FirstPremature(handling.ready) # 0

\* C28: when publishing to a consumer fails on a premature data access, the
\* handler defers the event exactly once, writes nothing to that consumer
\* and does not fail.
C28_DeferredOnceNoWriteNoFailure ==
    MetPrematureAccess
    => /\ handling.deferred = 1
       /\ FirstPremature(handling.ready) \notin handling.written
       /\ ~ handling.failed

\* The same for the handlers that carry the decorator.
C28_DecoratedHandlersDefer ==
    (MetPrematureAccess /\ handling.handler \in Decorated)
    => /\ handling.deferred = 1
       /\ FirstPremature(handling.ready) \notin handling.written
       /\ ~ handling.failed

(***************************************************************************)
(* S3Manager.skip_proxy (managers/s3.py): whether the endpoint bypasses    *)
(* the proxy.  Strings are sequences of characters, as for bucket names.   *)
(***************************************************************************)
MaxEntries == 2

DigitChars == <<"0", "1", "2", "3", "4", "5", "6", "7", "8", "9">>

IsDigit(c) == \E i \in DOMAIN DigitChars : DigitChars[i] = c

DigitVal(c) == (CHOOSE i \in DOMAIN DigitChars : DigitChars[i] = c) - 1

\* str.split(sep) for a one-character separator.
RECURSIVE Split(_, _)
Split(s, sep) ==
    IF \A i \in DOMAIN s : s[i] # sep
    THEN <<s>>
    ELSE LET i == CHOOSE i \in DOMAIN s : s[i] = sep /\ \A j \in 1..(i - 1) : s[j] # sep
         IN  <<SubSeq(s, 1, i - 1)>> \o Split(SubSeq(s, i + 1, Len(s)), sep)

\* str.strip()
RECURSIVE strip(_)
strip(s) ==
    IF s = << >> THEN s
    ELSE IF s[1] = " " THEN strip(Tail(s))
    ELSE IF s[Len(s)] = " " THEN strip(SubSeq(s, 1, Len(s) - 1))
    ELSE s

\* str.lower()
lower(s) ==
    [i \in DOMAIN s |-> CASE s[i] = "A" -> "a" [] s[i] = "B" -> "b"
                          [] s[i] = "C" -> "c" [] OTHER -> s[i]]

\* A decimal number of at most three digits, -1 when it is not one.
RECURSIVE Decimal(_)
Decimal(s) ==
    IF s = << >> \/ Len(s) > 3 \/ \E i \in DOMAIN s : ~ IsDigit(s[i])
    THEN -1
    ELSE IF Len(s) = 1 THEN DigitVal(s[1])
    ELSE 10 * Decimal(SubSeq(s, 1, Len(s) - 1)) + DigitVal(s[Len(s)])

\* ipaddress.ip_address for IPv4: four octets without leading zeros;
\* << >> stands for ValueError.
ip_address(s) ==
    LET parts == Split(s, ".")
    IN  IF /\ Len(parts) = 4
           /\ \A i \in 1..4 : /\ Decimal(parts[i]) \in 0..255
                              /\ (Len(parts[i]) > 1 => parts[i][1] # "0")
        THEN [i \in 1..4 |-> Decimal(parts[i])]
        ELSE << >>

\* ipaddress.ip_network(entry, strict=False): an address and a prefix
\* length, /32 without one; None stands for ValueError.
ip_network(s) ==
    LET parts == Split(s, "/")
        addr  == ip_address(parts[1])
    IN  IF addr = << >> \/ Len(parts) > 2 THEN None
        ELSE IF Len(parts) = 1 THEN [address |-> addr, prefixlen |-> 32]
        ELSE IF Decimal(parts[2]) \in 0..32
        THEN [address |-> addr, prefixlen |-> Decimal(parts[2])]
        ELSE None

RECURSIVE Pow2(_)
Pow2(n) == IF n = 0 THEN 1 ELSE 2 * Pow2(n - 1)

\* The bits of octet i that a prefix of the given length covers.
CoveredBits(prefixlen, i) ==
    LET left == prefixlen - 8 * (i - 1)
    IN  IF left < 0 THEN 0 ELSE IF left > 8 THEN 8 ELSE left

\* ip_address in ip_network: the covered bits agree.
InNetwork(addr, net) ==
    \A i \in 1..4 :
        LET shift == Pow2(8 - CoveredBits(net.prefixlen, i))
        IN  addr[i] \div shift = net.address[i] \div shift

\* The try block: a host or an entry that does not parse raises
\* ValueError, and the loop continues.
cidr_match(host, entry) ==
    LET addr == ip_address(host)
        net  == ip_network(entry)
    IN  IF addr = << >> \/ net = None THEN FALSE ELSE InNetwork(addr, net)

\* no_proxy_entries: stripped, lower-cased, blanks dropped.
no_proxy_entries(no_proxy_list) ==
    SelectSeq([i \in DOMAIN no_proxy_list |-> lower(strip(no_proxy_list[i]))],
              LAMBDA e : e # << >>)

entry_matches(host, entry) ==
    IF host = entry THEN TRUE
    ELSE IF StartsWith(entry, <<".">>) /\ EndsWith(host, entry) THEN TRUE
    ELSE IF EndsWith(host, <<".">> \o entry) THEN TRUE
    ELSE cidr_match(host, entry)

\* The loop gives up at the first entry that is not a network.
skip_proxy_stop_at_malformed(host, no_proxy_list) ==
    LET entries == no_proxy_entries(no_proxy_list)
    IN  /\ host # << >>
        /\ \E i \in DOMAIN entries :
              /\ entry_matches(host, entries[i])
              /\ \A j \in 1..(i - 1) : ip_network(entries[j]) # None

\* skip_proxy on the host urlparse found in the endpoint (<< >> for none)
\* and JUJU_CHARM_NO_PROXY split at its commas.
skip_proxy(host, no_proxy_list) ==
    LET entries == no_proxy_entries(no_proxy_list)
    IN  IF no_proxy_list = << >> THEN FALSE
        ELSE IF host = << >> THEN FALSE
        ELSE \E i \in DOMAIN entries : entry_matches(host, entries[i])

\* Hosts of endpoints: a name, a sub-domain, a name that only ends alike,
\* another name, addresses, and no host at all.
ProxyHosts ==
    { <<"a">>, <<"b", ".", "a">>, <<"b", "a">>, <<"c">>,
      <<"1", ".", "0", ".", "0", ".", "2">>,
      <<"1", ".", "9", ".", "9", ".", "9">>,
      <<"2", ".", "0", ".", "0", ".", "1">>,
      << >> }

\* Pieces of JUJU_CHARM_NO_PROXY between commas.
RawEntries ==
    { <<"a">>, <<".", "a">>, <<" ", "A", " ">>, <<" ">>,
      <<"1", ".", "0", ".", "0", ".", "0", "/", "8">>,
      <<"1", ".", "0", ".", "0", ".", "2">>,
      <<"x", "/", "8">>,
      <<"1", ".", "0", ".", "0", ".", "0", "/", "9", "9">> }

NoProxyLists ==
    UNION { [1..n -> RawEntries] : n \in 0..MaxEntries }

SkipProxy ==
    /\ proxy # None
    /\ proxy.results = << >>
    /\ proxy' = [proxy EXCEPT !.results = <<skip_proxy(proxy.host, proxy.no_proxy)>>]
    /\ UNCHANGED <<engineVars, retryVars, action, validation, naming, gcs, handling, requirer, azure>>

InitProxy ==
    /\ EngineIdle
    /\ RetryInit
    /\ \E h \in ProxyHosts, l \in NoProxyLists :
          proxy = [host |-> h, no_proxy |-> l, results |-> << >>]
    /\ action = None /\ validation = None /\ naming = None /\ gcs = None
    /\ handling = None /\ requirer = None /\ azure = None

NextProxy == SkipProxy

SpecProxy == InitProxy /\ [][NextProxy]_vars

\* The labels of a host name, and one list of labels ending another.
Labels(s) == Split(s, ".")

IsSuffix(short, long) ==
    Len(short) <= Len(long)
    /\ SubSeq(long, Len(long) - Len(short) + 1, Len(long)) = short

\* host lies strictly below the domain: its labels end with the domain's.
SubDomainOf(host, domain) ==
    Len(Labels(host)) > Len(Labels(domain)) /\ IsSuffix(Labels(domain), Labels(host))

\* An entry with its leading dot removed.
Undotted(entry) == IF StartsWith(entry, <<".">>) THEN Tail(entry) ELSE entry

\* The address the host spells lies in the range the entry spells.
InsideRange(host, entry) ==
    /\ ip_address(host) # << >>
    /\ ip_network(entry) # None
    /\ InNetwork(ip_address(host), ip_network(entry))

Decided == proxy # None /\ proxy.results # << >>

EntriesOf(p) == no_proxy_entries(p.no_proxy)

\* C29 as stated: the predicate is true exactly when the host equals an
\* entry, ends with '.<entry>', or is an address inside an entry's range;
\* the decision never fails.
C29_BypassAsStated ==
    Decided
    => /\ proxy.results[1] \in BOOLEAN
       /\ proxy.results[1] <=>
             /\ proxy.host # << >>
             /\ \E i \in DOMAIN EntriesOf(proxy) :
                   LET entry == EntriesOf(proxy)[i]
                   IN  \/ proxy.host = entry
                       \/ EndsWith(proxy.host, <<".">> \o entry)
                       \/ InsideRange(proxy.host, entry)

\* C29 with the dotted entries: the predicate is true exactly when the host
\* equals an entry, is a sub-domain of an entry (written with or without a
\* leading dot), or is an address inside an entry's range; entries that are
\* neither are skipped and the decision never fails.
C29_BypassWithDottedEntries ==
    Decided
    => /\ proxy.results[1] \in BOOLEAN
       /\ proxy.results[1] <=>
             /\ proxy.host # << >>
             /\ \E i \in DOMAIN EntriesOf(proxy) :
                   LET entry == EntriesOf(proxy)[i]
                   IN  \/ proxy.host = entry
                       \/ SubDomainOf(proxy.host, Undotted(entry))
                       \/ InsideRange(proxy.host, entry)

\* A sub-domain is bypassed by a dotted entry that follows a malformed one.
C29_Witness ==
    /\ Decided
    /\ proxy.results[1] = TRUE
    /\ proxy.host = <<"b", ".", "a">>
    /\ proxy.no_proxy = << <<"x", "/", "8">>, <<".", "a">> >>

(***************************************************************************)
(* Liveness of the reconciliation.  update-status is fired by Juju at      *)
(* every update-status-hook-interval, so a periodic refresh that would     *)
(* change something is not put off for ever.                               *)
(***************************************************************************)
\* A periodic refresh during which the secret store does not change.
PeriodicRefresh == OnUpdateStatus(NumReads(requests) + 1, secret)

\* The behaviours in which the unit is the leader from the start, the
\* configuration is valid and the credentials stay resolvable: the secret
\* may be rotated while a pass runs, its grant is not revoked.
InitLive ==
    /\ EngineInit
    /\ leader
    /\ CharmConfigValid(config)
    /\ RetryInit
    /\ SideIdle

NextLive ==
    \/ OnStart
    \/ \E flipAt \in 1..(5 + MaxRelations), flipTo \in {s \in EngineSecrets : s.kind = "content"} :
          OnUpdateStatus(flipAt, flipTo)
    \/ OnConfigChanged
    \/ \E secret_id \in SecretIds : OnSecretChanged(secret_id)
    \/ \E r \in Relations, bucket_added \in BOOLEAN : OnRelationChanged(r, bucket_added)
    \/ \E r \in Relations : OnRelationBroken(r)

SpecLive == InitLive /\ [][NextLive]_vars /\ WF_vars(PeriodicRefresh)

\* The bucket the consumer r is to be given: the configured one, else its own.
WantedBucket(r) == IF config.bucket # "" THEN config.bucket ELSE requests[r].bucket

\* The path r is to be given: the configured one, else its own.
WantedPath(r) == IF config.path # "" THEN config.path ELSE requests[r].path

\* The store has the bucket or can create it.
AbleToProvide(name) == name = "" \/ store[name] \in {"present", "absent"}

\* The persisted payload of r reflects its request and the credentials.
Reflects(r) ==
    /\ r \in DOMAIN requests
    /\ r \in DOMAIN databag
    /\ secret.kind = "content"
    /\ Get(databag[r], "bucket") = WantedBucket(r)
    /\ Get(databag[r], "path") = WantedPath(r)
    /\ Get(databag[r], "access-key") = secret.ak
    /\ Get(databag[r], "secret-key") = secret.sk

\* The hypotheses of the claim for the consumer r.
Favourable(r) ==
    /\ leader
    /\ CharmConfigValid(config)
    /\ secret.kind = "content"
    /\ r \in DOMAIN requests
    /\ AbleToProvide(WantedBucket(r))

C31_OneCredentialPerPass ==
    \A r \in DOMAIN last.writes, q \in DOMAIN last.writes :
        /\ Get(last.writes[r], "access-key") = Get(last.writes[q], "access-key")
        /\ Get(last.writes[r], "secret-key") = Get(last.writes[q], "secret-key")

\* While the secret store does not change during the pass, it holds.
C31_OneCredentialInStablePass ==
    [][ secret' = secret
        => \A r \in DOMAIN last'.writes, q \in DOMAIN last'.writes :
              /\ Get(last'.writes[r], "access-key") = Get(last'.writes[q], "access-key")
              /\ Get(last'.writes[r], "secret-key") = Get(last'.writes[q], "secret-key") ]_vars

(***************************************************************************)
(* S3ProviderEvents.get_statuses (events/provider.py).                     *)
(***************************************************************************)
\* The list comprehension of lines 191-194 and 195-203: the names of seq
\* that pass Keep, in order, repetitions included.
RECURSIVE FilterNames(_, _)
FilterNames(seq, keep) ==
    IF seq = << >> THEN << >>
    ELSE (IF Head(seq) \in keep THEN <<Head(seq)>> ELSE << >>)
         \o FilterNames(Tail(seq), keep)

\* requested_bucket_paths: the non-empty requested names in relation order.
RECURSIVE requested_buckets(_, _)
requested_buckets(reqs, order) ==
    IF order = << >> THEN << >>
    ELSE (IF reqs[Head(order)].bucket # "" THEN <<reqs[Head(order)].bucket>> ELSE << >>)
         \o requested_buckets(reqs, Tail(order))

\* get_statuses(scope, recompute): the recorded statuses sts, or the
\* statuses computed from the configuration, the secret store's outcome o,
\* the object store st and the requests reqs.
provider_get_statuses(recompute, cfg, o, st, reqs, sts) ==
    IF ~ recompute THEN sts
    ELSE LET s3 == ContextS3(cfg, o)
         IN  IF s3 = None THEN << >>
             ELSE LET requested == requested_buckets(reqs, RelationOrder(reqs))
                      config_bucket == Get(s3, "bucket")
                      invalid == {n \in Range(requested) : ~ BUCKET_REGEX(CharsOf[n])}
                      missing == {n \in Range(requested) :
                                     ~ get_bucket(st, n) /\ n \notin invalid}
                      invalid_buckets == FilterNames(requested, invalid)
                      missing_buckets == FilterNames(requested, missing)
                  IN  IF config_bucket # "" /\ ~ get_bucket(st, config_bucket)
                      THEN <<bucket_unavailable(<<config_bucket>>)>>
                      ELSE handle_status(missing_buckets, invalid_buckets)

\* A list of statuses as a set, each bucket status with the set of the
\* names it lists.
StatusSet(sts) == {[kind |-> sts[i].kind, names |-> Range(sts[i].names)] : i \in DOMAIN sts}

\* What recompute=true returns in the current state.
Recomputed == provider_get_statuses(TRUE, config, secret, store, requests, statuses)

\* C32: for the same configuration, requests and store contents, the
\* statuses recomputed by get_statuses are the set of statuses the
\* reconciliation pass recorded, which recompute=false returns, also when a
\* bucket is configured and consumers request buckets of their own.
C32_RecomputeAgrees ==
    (LeaderCompleted /\ secret.kind = "content")
    => /\ provider_get_statuses(FALSE, config, secret, store, requests, statuses) = statuses
       /\ StatusSet(Recomputed) = StatusSet(statuses)

\* Without a configured bucket and with requested names that are pairwise
\* distinct, the two agree.
C32_RecomputeAgreesOnOwnBuckets ==
    (/\ LeaderCompleted /\ secret.kind = "content" /\ config.bucket = ""
     /\ \A r \in DOMAIN requests, q \in DOMAIN requests :
           (r # q /\ requests[r].bucket # "") => requests[r].bucket # requests[q].bucket)
    => StatusSet(Recomputed) = StatusSet(statuses)

\* A trigger whose handler runs reconcile_buckets on the leader.
PassTrigger ==
    \/ OnConfigChanged
    \/ OnSecretChanged("secret:cred")
    \/ \E flipAt \in 1..(5 + MaxRelations), flipTo \in EngineSecrets :
          OnUpdateStatus(flipAt, flipTo)

\* The bucket names the recorded statuses list.
NamedInStatuses(sts) == UNION {Range(sts[i].names) : i \in DOMAIN sts}

\* C33: after every trigger handled on the leader, the recorded bucket
\* statuses describe only the outcome of that trigger's pass: none recorded
\* by an earlier pass remains, also when the trigger finds the configuration
\* or the credentials unresolvable.
C33_NoStaleStatus ==
    [][ (leader /\ PassTrigger)
        => /\ last'.mode # "completed" => NamedInStatuses(statuses') = {}
           /\ last'.mode = "completed"
              => NamedInStatuses(statuses')
                    \subseteq {config.bucket} \cup {requests[r].bucket : r \in DOMAIN requests}
      ]_vars

\* When the configuration is valid and the credentials are resolvable before
\* and after the trigger, no status of an earlier pass remains.
C33_NoStaleStatusWhenResolvable ==
    [][ (leader /\ PassTrigger /\ ContextS3(config, secret) # None /\ ContextS3(config, secret') # None)
        => /\ last'.mode # "completed" => NamedInStatuses(statuses') = {}
           /\ last'.mode = "completed"
              => NamedInStatuses(statuses')
                    \subseteq {config.bucket} \cup {requests[r].bucket : r \in DOMAIN requests}
      ]_vars

\* The object store as it is before the i-th call of a pass that started on
\* the store st: only create calls change it.
RECURSIVE StoreBefore(_, _, _)
StoreBefore(st, calls, i) ==
    IF i <= 1 THEN st
    ELSE LET before == StoreBefore(st, calls, i - 1)
             call == calls[i - 1]
         IN  IF call[1] = "create" THEN create_bucket(before, call[2]).store
             ELSE before

\* The i-th call of the pass is an exists check that found the bucket.
CheckFound(st, calls, i) ==
    /\ calls[i][1] = "get"
    /\ get_bucket(StoreBefore(st, calls, i), calls[i][2])

\* The i-th call of the pass is an exists check that missed.
CheckMissed(st, calls, i) ==
    /\ calls[i][1] = "get"
    /\ ~get_bucket(StoreBefore(st, calls, i), calls[i][2])

\* The i-th call of the pass is a create call that failed.
CreateFailed(st, calls, i) ==
    /\ calls[i][1] = "create"
    /\ create_bucket(StoreBefore(st, calls, i), calls[i][2]).raised

\* What the claim says of one run of ensure-or-create on the store st.
EnsureAsStated(st, n) ==
    LET e == ensure_bucket(st, n)
    IN  /\ \A j \in DOMAIN e.calls :
              e.calls[j][1] = "create"
              => /\ j > 1
                 /\ e.calls[j - 1] = <<"get", n>>
                 /\ CheckMissed(st, e.calls, j - 1)
        /\ e.ok => \E j \in DOMAIN e.calls :
                      e.calls[j][2] = n /\ CheckFound(st, e.calls, j)
        /\ \A j \in DOMAIN e.calls : CreateFailed(st, e.calls, j) => ~ e.ok
        /\ e.store = StoreBefore(st, e.calls, Len(e.calls) + 1)

\* The buckets a pass published to a consumer.
PublishedBuckets(writes) == {Get(writes[r], "bucket") : r \in DOMAIN writes} \ {""}

InvalidRequested ==
    {requests[r].bucket : r \in DOMAIN requests} \ ({""} \cup {n \in StoreNames : GrammarValid(n)})

\* C35: the object store is never asked to check or create a
\* consumer-requested bucket name that fails the naming grammar.
C35_InvalidNeverAsked ==
    (last.leader /\ last.mode = "completed")
    => \A n \in InvalidRequested : ~ Asked(n)

\* The store is not asked about an invalid name that one consumer only
\* requests.
C35_InvalidAskedOnceNeverAsked ==
    (last.leader /\ last.mode = "completed")
    => \A n \in InvalidRequested :
          Cardinality({r \in DOMAIN requests : requests[r].bucket = n}) = 1
          => ~ Asked(n)

\* C36: a secret-changed event for a secret other than the one the
\* credentials option refers to, or received when no credentials are
\* configured, or on a unit that is not the leader, runs no reconciliation
\* pass: no consumer payload, no bucket and no recorded status changes, and
\* the handler makes no write and no call of the object store.
C36_ForeignSecretIgnored ==
    [][ \A secret_id \in SecretIds :
           ( /\ OnSecretChanged(secret_id)
             /\ (~ leader \/ config.credentials = "" \/ config.credentials # secret_id) )
           => /\ databag' = databag
              /\ store' = store
              /\ statuses' = statuses
              /\ last'.mode = "skipped"
              /\ last'.writes = EmptyDict
              /\ last'.calls = << >>
      ]_vars

\* A handler of the leader has returned without a pass while the credentials
\* resolve, a consumer waits for the bucket "bk2" and the store would create
\* it: a pass would have published to that consumer.
C36_Witness ==
    /\ leader /\ last.leader
    /\ last.mode = "skipped"
    /\ Resolvable
    /\ config.credentials = "secret:cred"
    /\ \E r \in DOMAIN requests :
          /\ requests[r].bucket = "bk2"
          /\ databag[r] = EmptyDict
    /\ store["bk2"] = "absent"

(***************************************************************************)
(* The requirer libraries (s3/src/s3_lib.py and                            *)
(* gcs/lib/charms/data_platform_libs/v0/object_storage.py): when the       *)
(* connection-info-changed event is emitted.  The relations of the         *)
(* endpoint are listed in the order of their ids.  A relation is described *)
(* by the keys its provider data holds (as fetch_relation_data returns     *)
(* them) and by its application: "remote" with a unit, "departed" (a       *)
(* remote application without units), "own" (the charm's own application,  *)
(* the owner of the secret) or "none" (relation.app is None).              *)
(***************************************************************************)
S3_REQUIRED_OPTIONS == <<"access-key", "secret-key">>

\* GcsContract: required_info + secret_fields
GcsRequired == <<"bucket", "secret-key">>

ProviderData ==
    {{}, {"access-key"}, {"access-key", "secret-key"}, {"bucket", "secret-key"},
     {"bucket", "access-key", "secret-key"}}

RelationApps == {"remote", "departed", "own", "none"}

\* The labels of the secrets a secret-changed event can carry: none, one
\* that names no relation of the endpoint (relation 0), or the label of a
\* group of secret fields of a relation.
SecretLabels ==
    {[set |-> FALSE, relation |-> 0, group |-> "extra"]}
    \cup {[set |-> TRUE, relation |-> r, group |-> g] :
            r \in Relations \cup {0}, g \in {"extra", "user"}}

\* S3RequirerEventHandlers.get_s3_connection_info: the data of the first
\* relation of the endpoint that holds every required option
RECURSIVE get_s3_connection_info(_, _)
get_s3_connection_info(rq, i) ==
    IF i > MaxRelations THEN {}
    ELSE IF rq.app[i] = "none" THEN get_s3_connection_info(rq, i + 1)
    ELSE IF Range(S3_REQUIRED_OPTIONS) \ rq.data[i] # {}
         THEN get_s3_connection_info(rq, i + 1)
         ELSE rq.data[i]

\* contains_required_options of the two handlers of s3_lib
contains_required_options(rq) ==
    Range(S3_REQUIRED_OPTIONS) \subseteq get_s3_connection_info(rq, 1)

\* StorageRequirerEventHandlers.get_storage_connection_info
get_storage_connection_info(rq, r) ==
    IF rq.app[r] # "none" THEN rq.data[r] ELSE {}

\* StorageRequirerEventHandlers._all_required_present
all_required_present(rq, r) ==
    Range(GcsRequired) \subseteq get_storage_connection_info(rq, r)

Handled(rq, lib, handler, r, emitted) ==
    [rq EXCEPT !.lib = lib, !.handler = handler, !.relation = r, !.emitted = emitted]

RequirerStep(rq) ==
    /\ requirer' = rq
    /\ UNCHANGED <<engineVars, retryVars, action, validation, naming, gcs, proxy,
                   handling, azure>>

\* S3RequirerEventHandlers._on_relation_changed_event for the relation r
S3OnRelationChanged(r) ==
    /\ requirer # None
    /\ RequirerStep(Handled(requirer, "s3", "relation_changed", r,
                         IF contains_required_options(requirer)
                         THEN <<r>> ELSE << >>))

\* S3RequirerEventHandlers._on_secret_changed_event
S3OnSecretChanged(label) ==
    LET relation == label.relation
        emitted ==
            IF ~ label.set THEN << >>
            ELSE IF relation = 0 THEN << >>
            ELSE IF label.group # "extra" THEN << >>
            ELSE IF requirer.app[relation] = "own" THEN << >>
            ELSE IF requirer.app[relation] # "remote" THEN << >>
            ELSE IF contains_required_options(requirer)
                 THEN <<relation>> ELSE << >>
    IN  /\ requirer # None
        /\ RequirerStep(Handled(requirer, "s3", "secret_changed", relation, emitted))

\* StorageRequirerEventHandlers._on_relation_changed_event for the relation r
StorageOnRelationChanged(r) ==
    /\ requirer # None
    /\ RequirerStep(Handled(requirer, "object_storage", "relation_changed", r,
                         IF all_required_present(requirer, r) THEN <<r>> ELSE << >>))

\* StorageRequirerEventHandlers._on_secret_changed_event: the secret owner
\* is logged, and the handler goes on
StorageOnSecretChanged(label) ==
    LET relation == label.relation
        emitted ==
            IF ~ label.set THEN << >>
            ELSE IF relation = 0 THEN << >>
            ELSE IF all_required_present(requirer, relation)
                 THEN <<relation>> ELSE << >>
    IN  /\ requirer # None
        /\ RequirerStep(Handled(requirer, "object_storage", "secret_changed",
                                relation, emitted))

\* The provider writes the data of the relation r.
ProviderWrites(r, data) ==
    /\ requirer # None
    /\ RequirerStep([requirer EXCEPT !.data[r] = data, !.lib = "none",
                                     !.handler = "none", !.relation = 0,
                                     !.emitted = << >>])

InitRequirer ==
    /\ EngineIdle
    /\ RetryInit
    /\ \E data \in [Relations -> ProviderData], app \in [Relations -> RelationApps] :
          requirer = [data |-> data, app |-> app, lib |-> "none", handler |-> "none",
                      relation |-> 0, emitted |-> << >>]
    /\ action = None /\ validation = None /\ naming = None /\ gcs = None
    /\ proxy = None /\ handling = None /\ azure = None

NextRequirer ==
    \/ \E r \in Relations : S3OnRelationChanged(r)
    \/ \E label \in SecretLabels : S3OnSecretChanged(label)
    \/ \E r \in Relations : StorageOnRelationChanged(r)
    \/ \E label \in SecretLabels : StorageOnSecretChanged(label)
    \/ \E r \in Relations, data \in ProviderData : ProviderWrites(r, data)

SpecRequirer == InitRequirer /\ [][NextRequirer]_vars

\* C37: the S3 requirer library emits s3-connection-info-changed for a
\* relation only when that relation's own provider data contains both
\* access-key and secret-key, whatever other relations of the endpoint hold.
C37_EmittedOnOwnData ==
    (requirer # None /\ requirer.lib = "s3")
    => \A i \in DOMAIN requirer.emitted :
          {"access-key", "secret-key"} \subseteq requirer.data[requirer.emitted[i]]

\* The S3 requirer library emits the event only when some relation of the
\* endpoint holds both access-key and secret-key.
C37_EmittedOnSomeData ==
    (requirer # None /\ requirer.lib = "s3" /\ requirer.emitted # << >>)
    => \E r \in Relations : {"access-key", "secret-key"} \subseteq requirer.data[r]

\* A secret-changed event was handled whose secret belongs to a relation of
\* the charm's own application.
OwnSecretChanged ==
    /\ requirer # None
    /\ requirer.handler = "secret_changed"
    /\ requirer.relation \in Relations
    /\ requirer.app[requirer.relation] = "own"

\* C38: the object-storage requirer library emits no
\* storage-connection-info-changed event in response to a secret-changed
\* event whose relation belongs to the charm's own application, the owner of
\* the secret: such an event is ignored.
C38_SecretOwnerIgnored ==
    (OwnSecretChanged /\ requirer.lib = "object_storage")
    => requirer.emitted = << >>

\* The S3 requirer library ignores the secret-changed event of the secret
\* owner.
C38_SecretOwnerIgnoredByS3Lib ==
    (OwnSecretChanged /\ requirer.lib = "s3")
    => requirer.emitted = << >>

(***************************************************************************)
(* The Azure storage integrator (azure_storage/src): the connection info   *)
(* resolved from the configuration and the secret, the payloads handed to  *)
(* update_relation_data for the relations of the two endpoints, and the    *)
(* status computed at the end of each hook.  An option that is unset is    *)
(* absent from the configuration; None and "" are both modelled by "" in   *)
(* the connection info, where only their truth value is used.              *)
(***************************************************************************)
AZURE_MANDATORY_OPTIONS == <<"container", "storage-account", "credentials", "connection-protocol">>

\* The options Context.azure_storage reads for a service principal.
AZURE_SERVICE_PRINCIPAL_OPTIONS == <<"tenant-id", "client-id", "subscription-id">>

AzureBaseConfig ==
    [k \in {"storage-account", "credentials", "connection-protocol"} |->
        CASE k = "storage-account" -> "sa"
          [] k = "credentials" -> "secret:cred"
          [] k = "connection-protocol" -> "abfss"]

AzurePrincipalConfig ==
    [k \in Range(AZURE_SERVICE_PRINCIPAL_OPTIONS) |->
        CASE k = "tenant-id" -> "t1"
          [] k = "client-id" -> "c1"
          [] k = "subscription-id" -> "s1"]

\* The configurations: the container is unset, empty or set, and the options
\* of the service principal are unset or set.
AzureConfigs ==
    {DictUnion(DictUnion(AzureBaseConfig, c), p) :
        c \in {EmptyDict, "container" :> "", "container" :> "ct"},
        p \in {EmptyDict, AzurePrincipalConfig}}

\* What decode_secret yields: an exception, or the content of the secret.
AzureSecrets ==
    {[kind |-> "raise", content |-> EmptyDict],
     [kind |-> "content", content |-> EmptyDict],
     [kind |-> "content", content |-> "secret-key" :> "SK"],
     [kind |-> "content", content |-> "client-secret" :> "CS"],
     [kind |-> "content", content |-> ("secret-key" :> "SK") @@ ("client-secret" :> "CS")]}

\* AzureConnectionInfo.derived_endpoint for the protocol "abfss" and the
\* storage account "sa", no endpoint being configured
derived_endpoint(info) ==
    IF info.endpoint # "" THEN info.endpoint
    ELSE IF info.connection_protocol = "abfss"
         THEN IF info.container = "ct" THEN "abfss://ct@sa.dfs.core.windows.net/"
              ELSE "abfss://@sa.dfs.core.windows.net/"
         ELSE ""

\* AzureConnectionInfo.to_dict
azure_to_dict(info) ==
    LET data == ("connection-protocol" :> info.connection_protocol)
                @@ ("container" :> info.container)
                @@ ("storage-account" :> info.storage_account)
                @@ ("secret-key" :> info.secret_key)
                @@ ("endpoint" :> derived_endpoint(info))
        with_path == IF info.path # "" THEN DictUnion(data, "path" :> info.path) ELSE data
        with_group == IF info.resource_group # ""
                      THEN DictUnion(with_path, "resource-group" :> info.resource_group)
                      ELSE with_path
    IN  IF info.client_id # "" /\ info.tenant_id # "" /\ info.subscription_id # ""
        THEN DictUnion(with_group, ("client-id" :> info.client_id)
                                   @@ ("tenant-id" :> info.tenant_id)
                                   @@ ("subscription-id" :> info.subscription_id))
        ELSE with_group

\* Context.azure_storage: << >> for None, or the connection info
azure_storage(cfg, s) ==
    LET storage_account_secret == IF s.kind = "content" THEN Get(s.content, "secret-key") ELSE ""
        service_principal_secret == IF s.kind = "content" THEN Get(s.content, "client-secret") ELSE ""
        secret_key == IF (storage_account_secret # "") # (service_principal_secret # "")
                      THEN IF storage_account_secret # "" THEN storage_account_secret
                           ELSE service_principal_secret
                      ELSE ""
    IN  IF \E i \in DOMAIN AZURE_MANDATORY_OPTIONS : AZURE_MANDATORY_OPTIONS[i] \notin DOMAIN cfg
        THEN << >>
        ELSE << [connection_protocol |-> Get(cfg, "connection-protocol"),
                 container |-> Get(cfg, "container"),
                 storage_account |-> Get(cfg, "storage-account"),
                 endpoint |-> Get(cfg, "endpoint"),
                 resource_group |-> Get(cfg, "resource-group"),
                 path |-> Get(cfg, "path"),
                 secret_key |-> secret_key,
                 tenant_id |-> IF service_principal_secret # "" THEN Get(cfg, "tenant-id") ELSE "",
                 client_id |-> IF service_principal_secret # "" THEN Get(cfg, "client-id") ELSE "",
                 subscription_id |-> IF service_principal_secret # ""
                                     THEN Get(cfg, "subscription-id") ELSE ""] >>

\* AzureStorageManager.update: the payloads handed to update_relation_data
\* for the relations of one endpoint
azure_update(relations, azure_connection_info) ==
    IF Cardinality(relations) > 0 /\ azure_connection_info # << >>
    THEN [r \in relations |-> azure_to_dict(azure_connection_info[1])]
    ELSE EmptyDict

\* BaseEventHandler.get_app_status: the status and what it reports
get_app_status(cfg, s) ==
    IF \E i \in DOMAIN AZURE_MANDATORY_OPTIONS : Get(cfg, AZURE_MANDATORY_OPTIONS[i]) = ""
    THEN [status |-> "blocked", about |-> "missing-options"]
    ELSE IF s.kind = "raise"
    THEN [status |-> "blocked", about |-> "secret-unreadable"]
    ELSE IF Get(s.content, "secret-key") # "" /\ Get(s.content, "client-secret") # ""
    THEN [status |-> "blocked", about |-> "both-secrets"]
    ELSE IF Get(s.content, "secret-key") = "" /\ Get(s.content, "client-secret") = ""
    THEN [status |-> "blocked", about |-> "neither-secret"]
    ELSE IF /\ Get(s.content, "client-secret") # ""
            /\ \E i \in DOMAIN AZURE_SERVICE_PRINCIPAL_OPTIONS :
                  Get(cfg, AZURE_SERVICE_PRINCIPAL_OPTIONS[i]) = ""
    THEN [status |-> "blocked", about |-> "missing-principal-options"]
    ELSE [status |-> "active", about |-> ""]

\* compute_status around a hook that handed the payloads `handed` and
\* `legacy` to the relations of the two endpoints, with the configuration
\* cfg and the secret s in force
AzureHook(event, cfg, s, handed, legacy) ==
    /\ azure' = [azure EXCEPT
                   !.config = cfg, !.secret = s, !.event = event,
                   !.handed = handed, !.legacy_handed = legacy,
                   !.app_status = IF azure.leader THEN get_app_status(cfg, s) ELSE @,
                   !.unit_status = get_app_status(cfg, s)]
    /\ UNCHANGED <<engineVars, retryVars, action, validation, naming, gcs, proxy,
                   handling, requirer>>

\* GeneralEvents._on_start
AzureOnStart ==
    /\ azure # None
    /\ AzureHook("start", azure.config, azure.secret, EmptyDict, EmptyDict)

\* GeneralEvents._on_update_status
AzureOnUpdateStatus ==
    /\ azure # None
    /\ AzureHook("update_status", azure.config, azure.secret, EmptyDict, EmptyDict)

\* GeneralEvents._on_config_changed, the configuration now being cfg
AzureOnConfigChanged(cfg) ==
    /\ azure # None
    /\ IF ~ azure.leader
       THEN AzureHook("config_changed", cfg, azure.secret, EmptyDict, EmptyDict)
       ELSE AzureHook("config_changed", cfg, azure.secret,
                      azure_update(azure.relations, azure_storage(cfg, azure.secret)),
                      azure_update(azure.legacy, azure_storage(cfg, azure.secret)))

\* GeneralEvents._on_secret_changed for the secret secret_id, the secret of
\* the configuration now being s
AzureOnSecretChanged(secret_id, s) ==
    /\ azure # None
    /\ IF ~ azure.leader \/ Get(azure.config, "credentials") = ""
          \/ Get(azure.config, "credentials") # secret_id
       THEN AzureHook("secret_changed", azure.config, s, EmptyDict, EmptyDict)
       ELSE AzureHook("secret_changed", azure.config, s,
                      azure_update(azure.relations, azure_storage(azure.config, s)),
                      azure_update(azure.legacy, azure_storage(azure.config, s)))

InitAzure ==
    /\ EngineIdle
    /\ RetryInit
    /\ \E l \in BOOLEAN, cfg \in AzureConfigs, s \in AzureSecrets,
          n \in 0..MaxConsumers, m \in 0..1 :
          azure = [leader |-> l, config |-> cfg, secret |-> s,
                   relations |-> 1..n, legacy |-> 1..m, event |-> "none",
                   handed |-> EmptyDict, legacy_handed |-> EmptyDict,
                   app_status |-> [status |-> "unknown", about |-> ""],
                   unit_status |-> [status |-> "unknown", about |-> ""]]
    /\ action = None /\ validation = None /\ naming = None /\ gcs = None
    /\ proxy = None /\ handling = None /\ requirer = None

NextAzure ==
    \/ AzureOnStart
    \/ AzureOnUpdateStatus
    \/ \E cfg \in AzureConfigs : AzureOnConfigChanged(cfg)
    \/ \E secret_id \in SecretIds, s \in AzureSecrets : AzureOnSecretChanged(secret_id, s)

SpecAzure == InitAzure /\ [][NextAzure]_vars

\* The payloads the last hook handed to the consumers of the two endpoints.
AzureWritten ==
    {azure.handed[r] : r \in DOMAIN azure.handed}
    \cup {azure.legacy_handed[r] : r \in DOMAIN azure.legacy_handed}

\* The credentials secret resolves to exactly one of secret-key and
\* client-secret.
ExactlyOneSecret ==
    /\ azure.secret.kind = "content"
    /\ (Get(azure.secret.content, "secret-key") # "")
          # (Get(azure.secret.content, "client-secret") # "")

\* C39: the Azure integrator writes connection info to its consumers only
\* when the credentials secret resolves to exactly one of secret-key and
\* client-secret; when the secret is unreadable or holds both or neither
\* field, nothing is written, and no payload with an empty secret-key is
\* ever handed to a consumer.
C39_WrittenOnlyWithOneSecret ==
    azure # None
    => /\ AzureWritten # {} => ExactlyOneSecret
       /\ \A data \in AzureWritten : Get(data, "secret-key") # ""

\* A hook writes connection info only on the leader and only when every
\* mandatory option is present in the configuration; what it writes holds
\* the secret-key exactly when the secret resolves to one of the two fields.
C39_WrittenOnlyWithMandatoryOptions ==
    azure # None
    => /\ AzureWritten # {}
          => /\ azure.leader
             /\ Range(AZURE_MANDATORY_OPTIONS) \subseteq DOMAIN azure.config
       /\ \A data \in AzureWritten :
             (Get(data, "secret-key") # "") <=> ExactlyOneSecret

====
